---------------------------- MODULE Spec2Model ----------------------------
(***************************************************************************)
(* A model of the cloudspark S3 facade (src/cloudspark/s3_connect.py) and  *)
(* of its older variant (src/app/s3_connect.py, src/app/aws_connect.py).   *)
(* One instance of S3Connection is modelled, called from a single thread.  *)
(* The upstream services (S3, IAM, STS) are the environment: every         *)
(* upstream call's answer is an input of the action that makes the call.   *)
(***************************************************************************)
EXTENDS Integers, Sequences, FiniteSets, TLC

VARIABLES
    variant,        \* which package the instance comes from: "cloudspark" or "app"
    phase,          \* "new" before __init__, "ready" after it returned, "failed" when it raised
    identity,       \* _access_key, _secret_access_key, session_token kept by AWSConnection.__init__
    region_name,    \* _region_name
    session,        \* _session
    s3_instance,    \* __s3_instance
    bucket_name,    \* _bucket_name
    buckets,        \* upstream: the buckets that exist and belong to the caller
    sessionsBuilt,  \* number of boto3.Session constructions so far
    clientsBuilt,   \* number of S3 client constructions so far
    connectCalled,  \* connect()/s3_connect() was called on the instance (by the caller or by a method)
    connectRets,    \* the handles connect()/s3_connect() has returned to its callers
    sessionRets,    \* the handles session_connect() has returned to its callers
    createdOk,      \* the names for which create_s3bucket has returned normally
    last,           \* the most recent call: operation, argument, outcome, upstream calls, log lines
    threads,        \* the calls in progress on the instance when several threads share it
    objects,        \* the fields and conditions objects the caller gave to the most recent call
    klass,          \* the attributes of the class itself: _session, __s3_instance, _bucket_name
    instances       \* the instance attributes of each of several instances of the class

vars == <<variant, phase, identity, region_name, session, s3_instance, bucket_name,
          buckets, sessionsBuilt, clientsBuilt, connectCalled,
          connectRets, sessionRets, createdOk, last, threads, objects,
          klass, instances>>

\* what a call on the one instance, made from a single thread, never touches
aux == <<threads, klass, instances>>

----------------------------------------------------------------------------
(* Values *)

\* Python's None in a string-typed position
None == "<None>"

\* Python's None in a handle-typed position
NoHandle == [kind |-> "None"]

\* no exception
NoExc == [type |-> "", code |-> "", api |-> ""]

\* the caller's objects when the call ends and the objects handed upstream: a call that
\* was given none and sent none
NoObjects == [fields |-> NoHandle, conditions |-> NoHandle, Fields |-> "unsent",
              Conditions |-> "unsent"]

Variants == {"cloudspark", "app"}

Regions == {"us-east-1", "eu-west-1", "ap-south-1"}

BucketNames == {"b1", "b2"}

\* what a caller may pass as bucket_name to connect(): nothing, the empty string, a name
BucketArgs == {None, ""} \cup BucketNames

\* the truth value Python gives an Optional[str]
Truthy(s) == s /= None /\ s /= ""

\* the truth value Python gives an optional handle (a boto3 object defines no __bool__)
TruthyHandle(h) == h /= NoHandle

\* the fields of the instance a method body reads and writes
Self == [identity |-> identity, region_name |-> region_name, session |-> session,
         s3_instance |-> s3_instance, bucket_name |-> bucket_name,
         sessionsBuilt |-> sessionsBuilt, clientsBuilt |-> clientsBuilt]

Install(self) ==
    /\ session' = self.session
    /\ s3_instance' = self.s3_instance
    /\ bucket_name' = self.bucket_name
    /\ sessionsBuilt' = self.sessionsBuilt
    /\ clientsBuilt' = self.clientsBuilt

\* a line of console_print
Log(msg, color) == [msg |-> msg, color |-> color]

\* an upstream request and its answer
Call(api, bucket, arg, resp) == [api |-> api, Bucket |-> bucket, arg |-> arg, resp |-> resp]

\* botocore's ClientError for an upstream answer
ClientError(api, code) == [type |-> "ClientError", code |-> code, api |-> api]

AssertionError == [type |-> "AssertionError", code |-> "", api |-> ""]

\* what a call leaves behind: the instance, the upstream buckets, and what the caller sees
Frame(self, bkts, outcome, exc, ret, calls, logs) ==
    [self |-> self, buckets |-> bkts, outcome |-> outcome, exc |-> exc, ret |-> ret,
     calls |-> calls, logs |-> logs]

Returned(self, bkts, ret, calls, logs) == Frame(self, bkts, "returned", NoExc, ret, calls, logs)

Raised(self, bkts, exc, calls, logs) == Frame(self, bkts, "raised", exc, NoHandle, calls, logs)

\* the record of the most recent call
Record(op, arg, f) ==
    [op |-> op, arg |-> arg, outcome |-> f.outcome, exc |-> f.exc, ret |-> f.ret,
     calls |-> f.calls, logs |-> f.logs,
     pre |-> [session |-> session, s3_instance |-> s3_instance, bucket_name |-> bucket_name,
              connectCalled |-> connectCalled, createdOk |-> createdOk, buckets |-> buckets]]

----------------------------------------------------------------------------
(* Session and client establishment *)

\* boto3.Session(aws_access_key_id=..., aws_secret_access_key=..., region_name=...); the
\* identity of an app instance holds no session token, that of a cloudspark instance the
\* token its AWSConnection.__init__ was given
NewSession(self) ==
    [kind |-> "Session", id |-> self.sessionsBuilt + 1, identity |-> self.identity,
     region_name |-> self.region_name]

\* NewClient built by boto3.client('s3', ...), from boto3's default session
NewClientOfDefaultSession(self, signature_version) ==
    [kind |-> "Client", id |-> self.clientsBuilt + 1, service |-> "s3",
     session |-> 0, signature_version |-> signature_version]

\* self._session.client('s3', ...)
NewClient(self, signature_version) ==
    [kind |-> "Client", id |-> self.clientsBuilt + 1, service |-> "s3",
     session |-> self.session.id, signature_version |-> signature_version]

\* session_connect without the None check: a Session is built on every call
session_connect_rebuild(self) ==
    [self EXCEPT !.session = NewSession(self), !.sessionsBuilt = @ + 1]

\* AWSConnection.session_connect: the instance after the call; it returns .session
session_connect(self) ==
    IF self.session = NoHandle
    THEN [self EXCEPT !.session = NewSession(self), !.sessionsBuilt = @ + 1]
    ELSE self

\* EnsureClient without the None check: a client is built on every call
EnsureClientAlways(self, signature_version) ==
    [self EXCEPT !.s3_instance = NewClient(self, signature_version), !.clientsBuilt = @ + 1]

\* the client construction of connect / s3_connect
EnsureClient(self, signature_version) ==
    IF self.s3_instance = NoHandle
    THEN [self EXCEPT !.s3_instance = NewClient(self, signature_version), !.clientsBuilt = @ + 1]
    ELSE self

\* RememberBucket that keeps a bucket once one is remembered
RememberBucketOnce(self, name) ==
    IF Truthy(name) /\ ~Truthy(self.bucket_name) THEN [self EXCEPT !.bucket_name = name] ELSE self

\* the bucket_name assignment of connect / s3_connect
RememberBucket(self, name) ==
    IF Truthy(name) THEN [self EXCEPT !.bucket_name = name] ELSE self

\* cloudspark S3Connection.connect: the instance after the call; it returns .s3_instance
connect(self, name) ==
    LET s1 == IF ~TruthyHandle(self.session) THEN session_connect(self) ELSE self
        s2 == EnsureClient(s1, "s3v4")
    IN  RememberBucket(s2, name)

\* app S3Connection.s3_connect: the instance after the call; it returns .s3_instance
s3_connect(self, name) ==
    LET s1 == IF ~TruthyHandle(self.session) THEN session_connect(self) ELSE self
        s2 == EnsureClient(s1, "default")
    IN  RememberBucket(s2, name)

\* self.connect(...) in the cloudspark file, self.s3_connect(...) in the app file
ConnectOf(v, self, name) == IF v = "cloudspark" THEN connect(self, name) ELSE s3_connect(self, name)

----------------------------------------------------------------------------
(* Temporary credentials and construction *)

\* DurationSeconds: int = 3600
DefaultDuration == 3600

Durations == {DefaultDuration, 900}

\* the long-lived key pairs a caller may hand to the constructor: a valid one, an invalid one
KeyPairs == {[access_key |-> "AKIA", secret_access_key |-> "long-secret"],
             [access_key |-> "AKIA", secret_access_key |-> "wrong-secret"]}

ValidKeyPair(kp) == kp.secret_access_key = "long-secret"

\* the answers of the token service: the credentials, a refusal, or no answer at all
StsResponses(kp) ==
    IF ValidKeyPair(kp) THEN {"200", "EndpointConnectionError"}
    ELSE {"InvalidClientTokenId", "EndpointConnectionError"}

\* response['Credentials'] of a successful get_session_token
IssuedCredentials ==
    [kind |-> "Credentials", AccessKeyId |-> "ASIA", SecretAccessKey |-> "temp-secret",
     SessionToken |-> "temp-token"]

\* the exception boto3 raises for a failed get_session_token
StsError(resp) ==
    IF resp = "EndpointConnectionError"
    THEN [type |-> "EndpointConnectionError", code |-> "", api |-> "get_session_token"]
    ELSE ClientError("get_session_token", resp)

\* get_sts_token that asks a second time when the first request fails
get_sts_token_retry(self, bkts, kp, DurationSeconds, resp) ==
    LET c == Call("get_session_token", None, [key |-> kp, DurationSeconds |-> DurationSeconds], resp)
    IN  IF resp = "200"
        THEN Returned(self, bkts, IssuedCredentials, <<c>>, <<>>)
        ELSE Raised(self, bkts, StsError(resp), <<c, c>>,
                    <<Log("An error occurred: " \o resp, "error")>>)

\* S3Connection.get_sts_token
get_sts_token(self, bkts, kp, DurationSeconds, resp) ==
    LET c == Call("get_session_token", None, [key |-> kp, DurationSeconds |-> DurationSeconds], resp)
    IN  IF resp = "200"
        THEN Returned(self, bkts, IssuedCredentials, <<c>>, <<>>)
        ELSE Raised(self, bkts, StsError(resp), <<c>>,
                    <<Log("An error occurred: " \o resp, "error")>>)

\* no identity: AWSConnection.__init__ has not run
NoIdentity == [access_key |-> None, secret_access_key |-> None, session_token |-> None]

\* cloudspark AWSConnection.__init__, called with a session token: the identity it keeps
AWSConnection_init(access_key, secret_access_key, session_token) ==
    [access_key |-> access_key, secret_access_key |-> secret_access_key,
     session_token |-> session_token]

\* S3Connection.__init__ that hands the caller's own key pair on to AWSConnection.__init__
S3Connection_init_longlived(kp, region, DurationSeconds, resp) ==
    /\ phase = "new"
    /\ variant = "cloudspark"
    /\ LET f == get_sts_token(Self, buckets, kp, DurationSeconds, resp)
       IN  /\ last' = Record("__init__", kp, f)
           /\ IF f.outcome = "raised"
              THEN /\ phase' = "failed"
                   /\ UNCHANGED <<identity, region_name>>
              ELSE /\ phase' = "ready"
                   /\ identity' = AWSConnection_init(kp.access_key, kp.secret_access_key,
                                                     f.ret.SessionToken)
                   /\ region_name' = region
    /\ objects' = NoObjects
    /\ UNCHANGED <<aux, variant, session, s3_instance, bucket_name, buckets, sessionsBuilt,
                   clientsBuilt, connectCalled, connectRets, sessionRets, createdOk>>

\* cloudspark S3Connection.__init__
S3Connection_init(kp, region, DurationSeconds, resp) ==
    /\ phase = "new"
    /\ variant = "cloudspark"
    /\ LET f == get_sts_token(Self, buckets, kp, DurationSeconds, resp)
       IN  /\ last' = Record("__init__", kp, f)
           /\ IF f.outcome = "raised"
              THEN /\ phase' = "failed"
                   /\ UNCHANGED <<identity, region_name>>
              ELSE /\ phase' = "ready"
                   /\ identity' = AWSConnection_init(f.ret.AccessKeyId, f.ret.SecretAccessKey,
                                                     f.ret.SessionToken)
                   /\ region_name' = region
    /\ objects' = NoObjects
    /\ UNCHANGED <<aux, variant, session, s3_instance, bucket_name, buckets, sessionsBuilt,
                   clientsBuilt, connectCalled, connectRets, sessionRets, createdOk>>

\* app S3Connection.__init__ and AWSConnection.__init__
App_S3Connection_init(kp, region) ==
    /\ phase = "new"
    /\ variant = "app"
    /\ phase' = "ready"
    /\ identity' = [access_key |-> kp.access_key, secret_access_key |-> kp.secret_access_key,
                    session_token |-> None]
    /\ region_name' = region
    /\ last' = Record("__init__", kp, Returned(Self, buckets, NoHandle, <<>>, <<>>))
    /\ objects' = NoObjects
    /\ UNCHANGED <<aux, variant, session, s3_instance, bucket_name, buckets, sessionsBuilt,
                   clientsBuilt, connectCalled, connectRets, sessionRets, createdOk>>

\* a call of get_sts_token on a constructed instance
CallGetStsToken(kp, DurationSeconds, resp) ==
    /\ phase = "ready"
    /\ variant = "cloudspark"
    /\ last' = Record("get_sts_token", kp, get_sts_token(Self, buckets, kp, DurationSeconds, resp))
    /\ objects' = NoObjects
    /\ UNCHANGED <<aux, variant, phase, identity, region_name, session, s3_instance, bucket_name,
                   buckets, sessionsBuilt, clientsBuilt, connectCalled, connectRets,
                   sessionRets, createdOk>>

----------------------------------------------------------------------------
(* The calls of the connection methods *)

CallSessionConnect ==
    /\ phase = "ready"
    /\ LET s == session_connect(Self)
       IN  /\ Install(s)
           /\ sessionRets' = sessionRets \cup {s.session}
           /\ last' = Record("session_connect", None, Returned(s, buckets, s.session, <<>>, <<>>))
    /\ objects' = NoObjects
    /\ UNCHANGED <<aux, variant, phase, identity, region_name, buckets, connectCalled,
                   connectRets, createdOk>>

CallConnect(name) ==
    /\ phase = "ready"
    /\ variant = "cloudspark"
    /\ LET s == connect(Self, name)
       IN  /\ Install(s)
           /\ connectRets' = connectRets \cup {s.s3_instance}
           /\ last' = Record("connect", name, Returned(s, buckets, s.s3_instance, <<>>, <<>>))
    /\ connectCalled' = TRUE
    /\ objects' = NoObjects
    /\ UNCHANGED <<aux, variant, phase, identity, region_name, buckets, sessionRets, createdOk>>

CallS3Connect(name) ==
    /\ phase = "ready"
    /\ variant = "app"
    /\ LET s == s3_connect(Self, name)
       IN  /\ Install(s)
           /\ connectRets' = connectRets \cup {s.s3_instance}
           /\ last' = Record("s3_connect", name, Returned(s, buckets, s.s3_instance, <<>>, <<>>))
    /\ connectCalled' = TRUE
    /\ objects' = NoObjects
    /\ UNCHANGED <<aux, variant, phase, identity, region_name, buckets, sessionRets, createdOk>>

\* a call that changes nothing on the instance or upstream
CallOf(op, arg, f) ==
    /\ phase = "ready"
    /\ last' = Record(op, arg, f)
    /\ UNCHANGED <<threads, klass, instances, variant, phase, identity, region_name, session, s3_instance, bucket_name,
                   buckets, sessionsBuilt, clientsBuilt, connectCalled, connectRets,
                   sessionRets, createdOk>>

\* a call that changes nothing on the instance or upstream and is given no object
Observe(op, arg, f) ==
    /\ CallOf(op, arg, f)
    /\ objects' = NoObjects

\* cloudspark S3Connection.get_instance
get_instance ==
    /\ variant = "cloudspark"
    /\ Observe("get_instance", None,
               IF TruthyHandle(s3_instance)
               THEN Returned(Self, buckets, s3_instance, <<>>, <<>>)
               ELSE Raised(Self, buckets, AssertionError, <<>>, <<>>))

\* app S3Connection.get_s3_instance
get_s3_instance ==
    /\ variant = "app"
    /\ Observe("get_s3_instance", None,
               IF TruthyHandle(s3_instance)
               THEN Returned(Self, buckets, s3_instance, <<>>, <<>>)
               ELSE Raised(Self, buckets, AssertionError, <<>>, <<>>))

----------------------------------------------------------------------------
(* Bucket creation *)

\* the answers of head_bucket: found, not found, or refused
HeadResponses(bkts, name) == IF name \in bkts THEN {"200", "403"} ELSE {"404", "403"}

\* the answers of create_bucket
CreateResponses == {"200", "AccessDenied"}

\* CreateBucketRequest that sends the region as location constraint in every region
CreateBucketRequestConstrained(self, name, resp) ==
    Call("create_bucket", name, self.region_name, resp)

\* the create_bucket request of create_s3bucket: no location constraint in us-east-1
CreateBucketRequest(self, name, resp) ==
    IF self.region_name = "us-east-1"
    THEN Call("create_bucket", name, None, resp)
    ELSE Call("create_bucket", name, self.region_name, resp)

\* create_s3bucket that remembers the bucket before it checks that it exists
create_s3bucket_connect_first(v, self, bkts, name, headResp, createResp) ==
    LET head == Call("head_bucket", name, None, headResp)
        create == CreateBucketRequest(self, name, createResp)
        s == ConnectOf(v, self, name)
    IN  IF ~TruthyHandle(self.s3_instance)
        THEN Raised(self, bkts, AssertionError, <<>>, <<>>)
        ELSE IF headResp = "200"
        THEN Returned(s, bkts, s.s3_instance, <<head>>,
                      <<Log("Bucket '" \o name \o "' already exists.", "error")>>)
        ELSE IF headResp = "404"
        THEN IF createResp = "200"
             THEN Returned(s, bkts \cup {name}, s.s3_instance, <<head, create>>,
                           <<Log("Bucket '" \o name \o "' created successfully.", "success")>>)
             ELSE Raised(s, bkts, ClientError("create_bucket", createResp),
                         <<head, create>>, <<>>)
        ELSE Raised(s, bkts, ClientError("head_bucket", headResp), <<head>>,
                    <<Log("An error occurred: " \o headResp, "error")>>)

\* create_s3bucket that sends the create request whatever the existence check answered
create_s3bucket_unchecked(v, self, bkts, name, headResp, createResp) ==
    LET head == Call("head_bucket", name, None, headResp)
        create == CreateBucketRequest(self, name, createResp)
    IN  IF ~TruthyHandle(self.s3_instance)
        THEN Raised(self, bkts, AssertionError, <<>>, <<>>)
        ELSE IF createResp = "200"
        THEN LET s == ConnectOf(v, self, name)
             IN  Returned(s, bkts \cup {name}, s.s3_instance, <<head, create>>,
                          <<Log("Bucket '" \o name \o "' created successfully.", "success")>>)
        ELSE Raised(self, bkts, ClientError("create_bucket", createResp), <<head, create>>, <<>>)

\* S3Connection.create_s3bucket, the same in both files but for the connect it ends with
create_s3bucket(v, self, bkts, name, headResp, createResp) ==
    LET head == Call("head_bucket", name, None, headResp)
        create == CreateBucketRequest(self, name, createResp)
    IN  IF ~TruthyHandle(self.s3_instance)
        THEN Raised(self, bkts, AssertionError, <<>>, <<>>)
        ELSE IF headResp = "200"
        THEN LET s == ConnectOf(v, self, name)
             IN  Returned(s, bkts, s.s3_instance, <<head>>,
                          <<Log("Bucket '" \o name \o "' already exists.", "error")>>)
        ELSE IF headResp = "404"
        THEN IF createResp = "200"
             THEN LET s == ConnectOf(v, self, name)
                  IN  Returned(s, bkts \cup {name}, s.s3_instance, <<head, create>>,
                               <<Log("Bucket '" \o name \o "' created successfully.", "success")>>)
             ELSE Raised(self, bkts, ClientError("create_bucket", createResp),
                         <<head, create>>, <<>>)
        ELSE Raised(self, bkts, ClientError("head_bucket", headResp), <<head>>,
                    <<Log("An error occurred: " \o headResp, "error")>>)

CallCreateS3Bucket(name, headResp, createResp) ==
    /\ phase = "ready"
    /\ LET f == create_s3bucket(variant, Self, buckets, name, headResp, createResp)
       IN  /\ Install(f.self)
           /\ buckets' = f.buckets
           /\ last' = Record("create_s3bucket", name, f)
           /\ IF f.outcome = "returned"
              THEN /\ createdOk' = createdOk \cup {name}
                   /\ connectRets' = connectRets \cup {f.ret}
              ELSE UNCHANGED <<createdOk, connectRets>>
    /\ objects' = NoObjects
    /\ UNCHANGED <<aux, variant, phase, identity, region_name, connectCalled, sessionRets>>

----------------------------------------------------------------------------
(* The bucket and object methods *)

\* the answers of an upstream S3 or IAM request: success or a service error code
OpResponses == {"200", "AccessDenied", "InternalError"}

Keys == {"k1"}

\* the answer object boto3 hands back for a successful request
Response(api, bucket) == [kind |-> "Response", api |-> api, Bucket |-> bucket]

\* the assertion without its second operand
ConnectedClientOnly(self) == TruthyHandle(self.s3_instance)

\* assert self.__s3_instance and self._bucket_name
Connected(self) == TruthyHandle(self.s3_instance) /\ Truthy(self.bucket_name)

\* the line every except block of the file prints before it re-raises
ErrorLog(resp) == <<Log("An error occurred: " \o resp, "error")>>

\* the common shape of the methods: the assertion, then one request on the remembered
\* bucket; okLogs are printed after a success, errLogs by the except block (none where the
\* method has no try), ret is returned
Passthrough(self, bkts, api, arg, resp, okLogs, errLogs, ret) ==
    IF ~Connected(self)
    THEN Raised(self, bkts, AssertionError, <<>>, <<>>)
    ELSE LET c == Call(api, self.bucket_name, arg, resp)
         IN  IF resp = "200"
             THEN Returned(self, bkts, ret, <<c>>, okLogs)
             ELSE Raised(self, bkts, ClientError(api, resp), <<c>>, errLogs)

\* S3Connection.set_bucket_cors: no try around the request
set_bucket_cors(CORSRules, resp) ==
    Observe("set_bucket_cors", CORSRules,
        Passthrough(Self, buckets, "put_bucket_cors",
            IF CORSRules /= None THEN CORSRules ELSE "default_CORSRules", resp,
            <<Log("CORS configuration set for bucket '" \o bucket_name \o "'.", "success")>>,
            <<>>, s3_instance))

\* S3Connection.get_bucket_cors
get_bucket_cors(resp) ==
    Observe("get_bucket_cors", None,
        Passthrough(Self, buckets, "get_bucket_cors", None, resp, <<>>, ErrorLog(resp),
            Response("get_bucket_cors", bucket_name)))

\* S3Connection.delete_bucket_cors
delete_bucket_cors(resp) ==
    Observe("delete_bucket_cors", None,
        Passthrough(Self, buckets, "delete_bucket_cors", None, resp, <<>>, ErrorLog(resp),
            s3_instance))

\* the Policy argument of put_bucket_policy: the caller's string, the caller's dict dumped,
\* or the default policy dumped
PolicyDocument(bucket_policy) ==
    IF bucket_policy = None THEN "json(default_bucket_policy)"
    ELSE IF bucket_policy = "dict" THEN "json(dict)"
    ELSE bucket_policy

\* S3Connection.set_bucket_policy
set_bucket_policy(bucket_policy, resp) ==
    Observe("set_bucket_policy", bucket_policy,
        Passthrough(Self, buckets, "put_bucket_policy", PolicyDocument(bucket_policy), resp,
            <<Log("Bucket policy updated successfully.", "success")>>,
            IF resp = "AccessDenied"
            THEN <<Log("Access denied: insufficient permissions to set the bucket policy.", "error")>>
            ELSE ErrorLog(resp),
            s3_instance))

\* S3Connection.delete_bucket_policy
delete_bucket_policy(resp) ==
    Observe("delete_bucket_policy", None,
        Passthrough(Self, buckets, "delete_bucket_policy", None, resp, <<>>, ErrorLog(resp),
            s3_instance))

\* cloudspark S3Connection.get_bucket_policy
get_bucket_policy(resp) ==
    /\ variant = "cloudspark"
    /\ Observe("get_bucket_policy", None,
        Passthrough(Self, buckets, "get_bucket_policy", None, resp, <<>>, ErrorLog(resp),
            Response("get_bucket_policy", bucket_name)))

\* cloudspark S3Connection.public_access
public_access(block, resp) ==
    /\ variant = "cloudspark"
    /\ Observe("public_access", block,
        Passthrough(Self, buckets, "put_public_access_block", block, resp,
            <<Log("Public access " \o (IF block THEN "blocked" ELSE "allowed")
                  \o " for bucket '" \o bucket_name \o "'.", "success")>>,
            ErrorLog(resp), s3_instance))

\* app S3Connection.s3_public_access
s3_public_access(block, resp) ==
    /\ variant = "app"
    /\ Observe("s3_public_access", block,
        Passthrough(Self, buckets, "put_public_access_block", block, resp,
            <<Log("Public access " \o (IF block THEN "blocked" ELSE "allowed")
                  \o " for bucket: " \o bucket_name, "success")>>,
            <<Log("Error in setting public access: " \o resp, "error")>>, s3_instance))

\* S3Connection.upload_object
upload_object(key_name, resp) ==
    Observe("upload_object", key_name,
        Passthrough(Self, buckets, "put_object", key_name, resp,
            <<Log("File '" \o key_name \o "' successfully uploaded to bucket '"
                  \o bucket_name \o "'.", "success")>>,
            <<Log("Error uploading file '" \o key_name \o "': " \o resp, "error")>>,
            NoHandle))

\* S3Connection.get_object
get_object(key_name, resp) ==
    Observe("get_object", key_name,
        Passthrough(Self, buckets, "get_object", key_name, resp, <<>>, ErrorLog(resp),
            Response("get_object", bucket_name)))

\* cloudspark S3Connection.head_object
head_object(key_name, resp) ==
    /\ variant = "cloudspark"
    /\ Observe("head_object", key_name,
        Passthrough(Self, buckets, "head_object", key_name, resp, <<>>, ErrorLog(resp),
            Response("head_object", bucket_name)))

\* S3Connection.delete_object
delete_object(key_name, resp) ==
    Observe("delete_object", key_name,
        Passthrough(Self, buckets, "delete_object", key_name, resp,
            <<Log("Successfully deleted '" \o key_name \o "' from bucket '"
                  \o bucket_name \o "'", "success")>>,
            ErrorLog(resp), NoHandle))

\* the first page list_objects_v2 may answer with: no Contents, the Contents of a bucket
\* that fits the page, or the Contents of a page that has a further page behind it
ListPages == {[Contents |-> <<>>, IsTruncated |-> FALSE],
              [Contents |-> <<"k1">>, IsTruncated |-> FALSE],
              [Contents |-> <<"k1">>, IsTruncated |-> TRUE]}

\* what get_objects returns for a page
Listing(only_objects, only_keys, page) ==
    IF page.Contents = <<>> THEN [kind |-> "list", items |-> <<>>]
    ELSE IF only_objects
    THEN [kind |-> "list", items |-> [i \in DOMAIN page.Contents |-> [Key |-> page.Contents[i]]]]
    ELSE IF only_keys THEN [kind |-> "list", items |-> page.Contents]
    ELSE [kind |-> "Response", api |-> "list_objects_v2", Contents |-> page.Contents,
          IsTruncated |-> page.IsTruncated]

\* ListObjects that asks for the page behind a truncated one
ListObjectsAllPages(op, only_objects, only_keys, page, resp) ==
    Observe(op, [only_objects |-> only_objects, only_keys |-> only_keys, page |-> page],
        LET f == Passthrough(Self, buckets, "list_objects_v2", None, resp, <<>>, <<>>,
                             Listing(only_objects, only_keys, page))
        IN  IF f.outcome = "returned" /\ page.IsTruncated
            THEN [f EXCEPT !.calls = f.calls \o f.calls]
            ELSE f)

\* the body of get_objects / get_s3_bucket_objects: no try around the request; the call is
\* recorded with its two arguments and the page upstream answered with
ListObjects(op, only_objects, only_keys, page, resp) ==
    Observe(op, [only_objects |-> only_objects, only_keys |-> only_keys, page |-> page],
        Passthrough(Self, buckets, "list_objects_v2", None, resp, <<>>, <<>>,
            Listing(only_objects, only_keys, page)))

\* cloudspark S3Connection.get_objects
get_objects(only_objects, only_keys, page, resp) ==
    /\ variant = "cloudspark"
    /\ ListObjects("get_objects", only_objects, only_keys, page, resp)

\* app S3Connection.get_s3_bucket_objects
get_s3_bucket_objects(only_objects, only_keys, page, resp) ==
    /\ variant = "app"
    /\ ListObjects("get_s3_bucket_objects", only_objects, only_keys, page, resp)

UserNames == {"alice"}

\* the IAM request of list_user_policies, on a client built from the session for the call
IamListUserPolicies(self, bkts, UserName, resp) ==
    LET c == Call("iam.list_user_policies", None, UserName, resp)
    IN  IF resp = "200"
        THEN Returned(self, bkts, [kind |-> "Response", api |-> "iam.list_user_policies",
                                   UserName |-> UserName], <<c>>, <<>>)
        ELSE Raised(self, bkts, ClientError("iam.list_user_policies", resp), <<c>>, <<>>)

\* cloudspark S3Connection.list_user_policies: asserts the session, not the client
list_user_policies(UserName, resp) ==
    /\ variant = "cloudspark"
    /\ Observe("list_user_policies", UserName,
        IF ~TruthyHandle(session)
        THEN Raised(Self, buckets, AssertionError, <<>>, <<>>)
        ELSE IamListUserPolicies(Self, buckets, UserName, resp))

\* app S3Connection.list_user_policies: no assertion; None has no attribute 'client'
app_list_user_policies(UserName, resp) ==
    /\ variant = "app"
    /\ Observe("list_user_policies", UserName,
        IF session = NoHandle
        THEN Raised(Self, buckets, [type |-> "AttributeError", code |-> "", api |-> ""],
                    <<>>, <<>>)
        ELSE IamListUserPolicies(Self, buckets, UserName, resp))

----------------------------------------------------------------------------
(* Presigned URLs *)

\* expiration: int = 3600
DefaultExpiration == 3600

Expirations == {DefaultExpiration, 60}

ObjectNames == {"o1"}

\* a Python dict (items: a function from keys to values) and a Python list (items: a
\* sequence); NoHandle stands for None where one is optional
Dict(items) == [kind |-> "dict", items |-> items]

List(items) == [kind |-> "list", items |-> items]

EmptyItems == [k \in {} |-> ""]

\* d[key] = value
DictSet(items, key, value) ==
    [k \in DOMAIN items \cup {key} |-> IF k = key THEN value ELSE items[k]]

\* f'x-amz-meta-{key}'
MetaKey(key) == "x-amz-meta-" \o key

\* the loop over params.items(), params being a sequence of <<key, value>> in the dict's
\* order: the fields and the conditions after the first n entries
RECURSIVE InjectMetadata(_, _, _, _)
InjectMetadata(params, n, fields, conditions) ==
    IF n = 0 THEN [fields |-> fields, conditions |-> conditions]
    ELSE LET before == InjectMetadata(params, n - 1, fields, conditions)
             key == params[n][1]
             value == params[n][2]
         IN  IF key /= "file_name"
             THEN [fields |-> DictSet(before.fields, MetaKey(key), value),
                   conditions |-> Append(before.conditions,
                                         DictSet(EmptyItems, MetaKey(key), value))]
             ELSE before

\* PresignedPostArguments whose loop has no test of the key
RECURSIVE InjectEveryKey(_, _, _, _)
InjectEveryKey(params, n, fields, conditions) ==
    IF n = 0 THEN [fields |-> fields, conditions |-> conditions]
    ELSE LET before == InjectEveryKey(params, n - 1, fields, conditions)
         IN  [fields |-> DictSet(before.fields, MetaKey(params[n][1]), params[n][2]),
              conditions |-> Append(before.conditions,
                                    DictSet(EmptyItems, MetaKey(params[n][1]), params[n][2]))]

PresignedPostArgumentsEveryKey(params, fields, conditions) ==
    IF params /= NoHandle /\ params.items /= <<>>
    THEN LET f == IF fields.kind = "dict" THEN fields.items ELSE EmptyItems
             c == IF conditions.kind = "list" THEN conditions.items ELSE <<>>
             r == InjectEveryKey(params.items, Len(params.items), f, c)
         IN  [Fields |-> Dict(r.fields), Conditions |-> List(r.conditions)]
    ELSE [Fields |-> fields, Conditions |-> conditions]

\* the Fields and Conditions presigned_create_url hands to generate_presigned_post
PresignedPostArguments(params, fields, conditions) ==
    IF params /= NoHandle /\ params.items /= <<>>
    THEN LET f == IF fields.kind = "dict" THEN fields.items ELSE EmptyItems
             c == IF conditions.kind = "list" THEN conditions.items ELSE <<>>
             r == InjectMetadata(params.items, Len(params.items), f, c)
         IN  [Fields |-> Dict(r.fields), Conditions |-> List(r.conditions)]
    ELSE [Fields |-> fields, Conditions |-> conditions]

\* what boto3's generate_presigned_post answers: the url of the bucket and the form fields,
\* which are the given Fields with the key, the signed policy and its signature added
PresignedPost(bucket, Key, Fields, Conditions, ExpiresIn) ==
    LET given == IF Fields.kind = "dict" THEN Fields.items ELSE EmptyItems
    IN  [url |-> "https://" \o bucket \o ".s3.amazonaws.com/",
         fields |-> DictSet(DictSet(DictSet(given, "key", Key), "policy", "base64-policy"),
                            "x-amz-signature", "signature")]

\* a call stopped by its assertion: the caller's objects as they were passed, nothing sent
Untouched(fields, conditions) ==
    [fields |-> fields, conditions |-> conditions, Fields |-> "unsent", Conditions |-> "unsent"]

\* PresignedPostObjects that works on copies of what the caller passed
PresignedPostObjectsCopied(params, fields, conditions) ==
    IF params /= NoHandle /\ params.items /= <<>>
    THEN [fields |-> fields, conditions |-> conditions, Fields |-> "fresh",
          Conditions |-> "fresh"]
    ELSE [fields |-> fields, conditions |-> conditions,
          Fields |-> IF fields = NoHandle THEN "None" ELSE "caller's",
          Conditions |-> IF conditions = NoHandle THEN "None" ELSE "caller's"]

\* which objects presigned_create_url works on and hands upstream, and what the caller's
\* own objects hold afterwards: with params, `fields if isinstance(fields, dict) else {}`
\* keeps the caller's dict and the loop assigns into it, or makes a fresh one; without
\* params the arguments are handed on as they came
PresignedPostObjects(params, fields, conditions) ==
    IF params /= NoHandle /\ params.items /= <<>>
    THEN LET a == PresignedPostArguments(params, fields, conditions)
         IN  [fields |-> IF fields.kind = "dict" THEN a.Fields ELSE fields,
              conditions |-> IF conditions.kind = "list" THEN a.Conditions ELSE conditions,
              Fields |-> IF fields.kind = "dict" THEN "caller's" ELSE "fresh",
              Conditions |-> IF conditions.kind = "list" THEN "caller's" ELSE "fresh"]
    ELSE [fields |-> fields, conditions |-> conditions,
          Fields |-> IF fields = NoHandle THEN "None" ELSE "caller's",
          Conditions |-> IF conditions = NoHandle THEN "None" ELSE "caller's"]

\* json.dumps of a response
JsonText(doc) == [kind |-> "str", json |-> doc]

\* presigned_create_url that hands the caller's own fields and conditions upstream
presigned_create_url_unaugmented(object_name, params, fields, conditions, expiration, resp) ==
    /\ variant = "cloudspark"
    /\ CallOf("presigned_create_url",
        [object_name |-> object_name, params |-> params, fields |-> fields,
         conditions |-> conditions, expiration |-> expiration],
        Passthrough(Self, buckets, "generate_presigned_post",
            [Key |-> object_name, Fields |-> fields, Conditions |-> conditions,
             ExpiresIn |-> expiration],
            resp, <<>>, ErrorLog(resp),
            JsonText(PresignedPost(bucket_name, object_name, fields, conditions, expiration))))
    /\ objects' = IF Connected(Self) THEN PresignedPostObjects(params, fields, conditions)
                   ELSE Untouched(fields, conditions)

\* cloudspark S3Connection.presigned_create_url
presigned_create_url(object_name, params, fields, conditions, expiration, resp) ==
    /\ variant = "cloudspark"
    /\ CallOf("presigned_create_url",
        [object_name |-> object_name, params |-> params, fields |-> fields,
         conditions |-> conditions, expiration |-> expiration],
        LET a == PresignedPostArguments(params, fields, conditions)
        IN  Passthrough(Self, buckets, "generate_presigned_post",
                [Key |-> object_name, Fields |-> a.Fields, Conditions |-> a.Conditions,
                 ExpiresIn |-> expiration],
                resp, <<>>, ErrorLog(resp),
                JsonText(PresignedPost(bucket_name, object_name, a.Fields, a.Conditions,
                                       expiration))))
    /\ objects' = IF Connected(Self) THEN PresignedPostObjects(params, fields, conditions)
                   ELSE Untouched(fields, conditions)

\* what boto3's generate_presigned_url answers
PresignedUrl(method, bucket, Key, ExpiresIn) ==
    [kind |-> "str", url |-> "https://" \o bucket \o ".s3.amazonaws.com/" \o Key,
     method |-> method, ExpiresIn |-> ExpiresIn]

\* cloudspark S3Connection.presigned_delete_url
presigned_delete_url(object_name, expiration, resp) ==
    /\ variant = "cloudspark"
    /\ Observe("presigned_delete_url", object_name,
        Passthrough(Self, buckets, "generate_presigned_url",
            [ClientMethod |-> "delete_object", Key |-> object_name, ExpiresIn |-> expiration],
            resp, <<>>, ErrorLog(resp),
            PresignedUrl("delete_object", bucket_name, object_name, expiration)))

\* cloudspark S3Connection.presigned_get_url
presigned_get_url(object_name, expiration, resp) ==
    /\ variant = "cloudspark"
    /\ Observe("presigned_get_url", object_name,
        Passthrough(Self, buckets, "generate_presigned_url",
            [ClientMethod |-> "get_object", Key |-> object_name, ExpiresIn |-> expiration],
            resp, <<>>, ErrorLog(resp),
            PresignedUrl("get_object", bucket_name, object_name, expiration)))

----------------------------------------------------------------------------
(* Inputs of presigned_create_url *)

ParamKeys == {"owner", "file_name", "tag"}

ParamValues == {"alice", "x"}

\* the largest number of entries of a params dict
MaxParams == 2

\* the params dicts: None, the empty dict, and the dicts of up to MaxParams entries with
\* distinct keys, in every insertion order
ParamDicts ==
    {NoHandle} \cup
    { Dict(p) : p \in { q \in UNION { [1..n -> ParamKeys \X ParamValues] : n \in 0..MaxParams } :
                          \A i, j \in DOMAIN q : i /= j => q[i][1] /= q[j][1] } }

\* the fields a caller may pass: none, an empty dict, a dict with an entry of its own, a
\* dict that already binds a metadata key
FieldDicts ==
    {NoHandle, Dict(EmptyItems), Dict(DictSet(EmptyItems, "acl", "private")),
     Dict(DictSet(EmptyItems, "x-amz-meta-owner", "bob"))}

\* the conditions a caller may pass: none, an empty list, a list with an entry of its own
ConditionLists ==
    {NoHandle, List(<<>>), List(<<DictSet(EmptyItems, "acl", "private")>>)}

\* the params of the test of the specification: owner and file_name
SpecParams == Dict(<<<<"owner", "alice">>, <<"file_name", "x">>>>)

----------------------------------------------------------------------------
(* JSON text and base64, as policy_decode uses them.  A text is a sequence of     *)
(* one-character strings; a document is what json.loads builds: an int, a str, a  *)
(* constant, a dict (its items in order, keys distinct) or a list.                *)

JInt(n) == [t |-> "int", n |-> n]

JStr(chars) == [t |-> "str", s |-> chars]

JNull == [t |-> "null"]

JTrue == [t |-> "true"]

JFalse == [t |-> "false"]

JDict(items) == [t |-> "dict", members |-> items]

JList(items) == [t |-> "list", elements |-> items]

\* the members of a dict, the elements of a list
Items(doc) == IF doc.t = "dict" THEN doc.members ELSE doc.elements

\* json.dumps(..., indent=4)
JsonIndent == 4

\* n spaces
RECURSIVE Spaces(_)
Spaces(n) == IF n <= 0 THEN <<>> ELSE <<" ">> \o Spaces(n - 1)

\* the decimal digits of a natural number
RECURSIVE Digits(_)
Digits(n) ==
    LET d == <<"0", "1", "2", "3", "4", "5", "6", "7", "8", "9">>[(n % 10) + 1]
    IN  IF n < 10 THEN <<d>> ELSE Digits(n \div 10) \o <<d>>

\* the separators of json.dumps: indent == 0 stands for indent=None, compact for
\* separators=(',', ':')
ItemSeparator(indent, compact) == IF indent > 0 \/ compact THEN <<",">> ELSE <<",", " ">>

KeySeparator(indent, compact) == IF compact THEN <<":">> ELSE <<":", " ">>

NewlineIndent(indent, level) == IF indent > 0 THEN <<"\n">> \o Spaces(indent * level) ELSE <<>>

\* the encoder of json.dumps
RECURSIVE json_dumps(_, _, _, _), DumpItems(_, _, _, _, _, _)
json_dumps(doc, indent, compact, level) ==
    IF doc.t = "int" THEN Digits(doc.n)
    ELSE IF doc.t = "str" THEN <<"\"">> \o doc.s \o <<"\"">>
    ELSE IF doc.t = "null" THEN <<"n", "u", "l", "l">>
    ELSE IF doc.t = "true" THEN <<"t", "r", "u", "e">>
    ELSE IF doc.t = "false" THEN <<"f", "a", "l", "s", "e">>
    ELSE LET open == IF doc.t = "dict" THEN <<"{">> ELSE <<"[">>
             close == IF doc.t = "dict" THEN <<"}">> ELSE <<"]">>
         IN  IF Items(doc) = <<>> THEN open \o close
             ELSE open \o NewlineIndent(indent, level + 1)
                  \o DumpItems(doc.t, Items(doc), Len(Items(doc)), indent, compact, level + 1)
                  \o NewlineIndent(indent, level) \o close

\* the first n items of a dict or list, separated
DumpItems(t, items, n, indent, compact, level) ==
    LET item == IF t = "dict"
                THEN <<"\"">> \o items[n][1] \o <<"\"">> \o KeySeparator(indent, compact)
                     \o json_dumps(items[n][2], indent, compact, level)
                ELSE json_dumps(items[n], indent, compact, level)
    IN  IF n = 1 THEN item
        ELSE DumpItems(t, items, n - 1, indent, compact, level)
             \o ItemSeparator(indent, compact) \o NewlineIndent(indent, level) \o item

IsWhitespace(c) == c \in {" ", "\n", "\t", "\r"}

IsDigit(c) == c \in {"0", "1", "2", "3", "4", "5", "6", "7", "8", "9"}

DigitValue(c) == CHOOSE n \in 0..9 : Digits(n) = <<c>>

\* the first position from i on that holds no whitespace
RECURSIVE SkipWhitespace(_, _)
SkipWhitespace(text, i) ==
    IF i <= Len(text) /\ IsWhitespace(text[i]) THEN SkipWhitespace(text, i + 1) ELSE i

\* a decoding step's result: the value and the position after it, or a failure
Parsed(v, next) == [ok |-> TRUE, v |-> v, next |-> next]

ParseFailure == [ok |-> FALSE, v |-> JNull, next |-> 0]

\* the position of the quote that closes the string whose body starts at i, 0 if none;
\* a control character inside a string is an error
RECURSIVE ClosingQuote(_, _)
ClosingQuote(text, i) ==
    IF i > Len(text) \/ text[i] \in {"\n", "\t", "\r"} THEN 0
    ELSE IF text[i] = "\"" THEN i
    ELSE ClosingQuote(text, i + 1)

ParseString(text, i) ==
    LET j == ClosingQuote(text, i + 1)
    IN  IF j = 0 THEN ParseFailure ELSE Parsed(JStr(SubSeq(text, i + 1, j - 1)), j + 1)

\* the value and end of the run of digits at i, given the value so far
RECURSIVE ParseDigits(_, _, _)
ParseDigits(text, i, acc) ==
    IF i <= Len(text) /\ IsDigit(text[i])
    THEN ParseDigits(text, i + 1, acc * 10 + DigitValue(text[i]))
    ELSE Parsed(JInt(acc), i)

\* a number: 0, or a run of digits that does not start with 0
ParseNumber(text, i) ==
    IF text[i] = "0" THEN Parsed(JInt(0), i + 1) ELSE ParseDigits(text, i, 0)

ParseLiteral(text, i, word, v) ==
    IF i + Len(word) - 1 <= Len(text) /\ SubSeq(text, i, i + Len(word) - 1) = word
    THEN Parsed(v, i + Len(word))
    ELSE ParseFailure

\* d[key] = value on the items of a dict: a repeated key keeps its place, the last value wins
PutItem(items, key, value) ==
    IF \E n \in DOMAIN items : items[n][1] = key
    THEN [n \in DOMAIN items |-> IF items[n][1] = key THEN <<key, value>> ELSE items[n]]
    ELSE Append(items, <<key, value>>)

\* the decoder of json.loads
RECURSIVE ParseValue(_, _), ParseMembers(_, _, _), ParseElements(_, _, _)
ParseValue(text, i) ==
    IF i > Len(text) THEN ParseFailure
    ELSE IF text[i] = "\"" THEN ParseString(text, i)
    ELSE IF IsDigit(text[i]) THEN ParseNumber(text, i)
    ELSE IF text[i] = "n" THEN ParseLiteral(text, i, <<"n", "u", "l", "l">>, JNull)
    ELSE IF text[i] = "t" THEN ParseLiteral(text, i, <<"t", "r", "u", "e">>, JTrue)
    ELSE IF text[i] = "f" THEN ParseLiteral(text, i, <<"f", "a", "l", "s", "e">>, JFalse)
    ELSE IF text[i] = "{"
    THEN LET j == SkipWhitespace(text, i + 1)
         IN  IF j <= Len(text) /\ text[j] = "}" THEN Parsed(JDict(<<>>), j + 1)
             ELSE ParseMembers(text, j, <<>>)
    ELSE IF text[i] = "["
    THEN LET j == SkipWhitespace(text, i + 1)
         IN  IF j <= Len(text) /\ text[j] = "]" THEN Parsed(JList(<<>>), j + 1)
             ELSE ParseElements(text, j, <<>>)
    ELSE ParseFailure

\* the members of an object from the key at i on, items being the members read so far
ParseMembers(text, i, items) ==
    IF i > Len(text) \/ text[i] /= "\"" THEN ParseFailure
    ELSE LET key == ParseString(text, i)
             colon == IF key.ok THEN SkipWhitespace(text, key.next) ELSE 0
             value == IF key.ok /\ colon <= Len(text) /\ text[colon] = ":"
                      THEN ParseValue(text, SkipWhitespace(text, colon + 1))
                      ELSE ParseFailure
             after == IF value.ok THEN SkipWhitespace(text, value.next) ELSE 0
         IN  IF ~value.ok \/ after > Len(text) THEN ParseFailure
             ELSE IF text[after] = "}"
             THEN Parsed(JDict(PutItem(items, key.v.s, value.v)), after + 1)
             ELSE IF text[after] = ","
             THEN ParseMembers(text, SkipWhitespace(text, after + 1),
                               PutItem(items, key.v.s, value.v))
             ELSE ParseFailure

\* the elements of an array from the value at i on, items being the elements read so far
ParseElements(text, i, items) ==
    LET value == ParseValue(text, i)
        after == IF value.ok THEN SkipWhitespace(text, value.next) ELSE 0
    IN  IF ~value.ok \/ after > Len(text) THEN ParseFailure
        ELSE IF text[after] = "]" THEN Parsed(JList(Append(items, value.v)), after + 1)
        ELSE IF text[after] = ","
        THEN ParseElements(text, SkipWhitespace(text, after + 1), Append(items, value.v))
        ELSE ParseFailure

\* json.loads: one value, whitespace around it, nothing after it
json_loads(text) ==
    LET r == ParseValue(text, SkipWhitespace(text, 1))
    IN  IF r.ok /\ SkipWhitespace(text, r.next) = Len(text) + 1 THEN r ELSE ParseFailure

\* the base64 alphabet, value 0 first
B64Alphabet ==
    <<"A", "B", "C", "D", "E", "F", "G", "H", "I", "J", "K", "L", "M", "N", "O", "P",
      "Q", "R", "S", "T", "U", "V", "W", "X", "Y", "Z", "a", "b", "c", "d", "e", "f",
      "g", "h", "i", "j", "k", "l", "m", "n", "o", "p", "q", "r", "s", "t", "u", "v",
      "w", "x", "y", "z", "0", "1", "2", "3", "4", "5", "6", "7", "8", "9", "+", "/">>

IsB64(c) == \E n \in DOMAIN B64Alphabet : B64Alphabet[n] = c

B64Value(c) == (CHOOSE n \in DOMAIN B64Alphabet : B64Alphabet[n] = c) - 1

B64Char(v) == B64Alphabet[v + 1]

\* the code points of the characters the texts are made of
CharCodes ==
    ("{" :> 123) @@ ("}" :> 125) @@ ("[" :> 91) @@ ("]" :> 93) @@ ("\"" :> 34) @@ (":"
    :> 58) @@ ("," :> 44) @@ (" " :> 32) @@ ("\n" :> 10) @@ ("0" :> 48) @@ ("1" :> 49)
    @@ ("2" :> 50) @@ ("3" :> 51) @@ ("4" :> 52) @@ ("5" :> 53) @@ ("6" :> 54) @@ ("7"
    :> 55) @@ ("8" :> 56) @@ ("9" :> 57) @@ ("a" :> 97) @@ ("b" :> 98) @@ ("c" :> 99) @@
    ("e" :> 101) @@ ("l" :> 108) @@ ("n" :> 110) @@ ("r" :> 114) @@ ("s" :> 115) @@ ("t"
    :> 116) @@ ("u" :> 117)

\* str.encode()
Encode(text) == [i \in DOMAIN text |-> CharCodes[text[i]]]

\* one decoded character; a code outside the table is written \xNN
Chr(b) ==
    IF \E c \in DOMAIN CharCodes : CharCodes[c] = b
    THEN CHOOSE c \in DOMAIN CharCodes : CharCodes[c] = b
    ELSE "\\x" \o ToString(b)

\* base64.b64encode of the bytes from position i on
RECURSIVE b64encode(_, _)
b64encode(bytes, i) ==
    LET left == Len(bytes) - i + 1
        n == bytes[i] * 65536 + (IF left >= 2 THEN bytes[i + 1] * 256 ELSE 0)
             + (IF left >= 3 THEN bytes[i + 2] ELSE 0)
    IN  IF left <= 0 THEN <<>>
        ELSE <<B64Char(n \div 262144), B64Char((n \div 4096) % 64)>>
             \o (IF left >= 2 THEN <<B64Char((n \div 64) % 64)>> ELSE <<"=">>)
             \o (IF left >= 3 THEN <<B64Char(n % 64)>> ELSE <<"=">>)
             \o (IF left > 3 THEN b64encode(bytes, i + 3) ELSE <<>>)

\* base64.b64decode, not validating: characters outside the alphabet are skipped, a
\* completed padding ends the input, and a quad left incomplete is an error.  quad is the
\* number of characters of the current quad read so far, left the bits they left over
RECURSIVE b64decode(_, _, _, _, _, _)
b64decode(text, i, quad, left, pads, out) ==
    IF i > Len(text) THEN [ok |-> quad = 0, bytes |-> out]
    ELSE IF text[i] = "="
    THEN IF quad >= 2 /\ quad + pads + 1 >= 4 THEN [ok |-> TRUE, bytes |-> out]
         ELSE b64decode(text, i + 1, quad, left, IF quad >= 2 THEN pads + 1 ELSE pads, out)
    ELSE IF ~IsB64(text[i]) THEN b64decode(text, i + 1, quad, left, pads, out)
    ELSE LET v == B64Value(text[i])
         IN  IF quad = 0 THEN b64decode(text, i + 1, 1, v, 0, out)
             ELSE IF quad = 1
             THEN b64decode(text, i + 1, 2, v % 16, 0, Append(out, left * 4 + v \div 16))
             ELSE IF quad = 2
             THEN b64decode(text, i + 1, 3, v % 4, 0, Append(out, left * 16 + v \div 4))
             ELSE b64decode(text, i + 1, 0, 0, 0, Append(out, left * 64 + v))

\* the exceptions of the three steps of policy_decode
DecodeError(type) == [type |-> type, code |-> "", api |-> ""]

\* policy_decode that parses its argument without decoding it
policy_decode_undecoded(policy_encoded) ==
    LET policy_json == json_loads(policy_encoded)
    IN  IF ~policy_json.ok
        THEN Raised(Self, buckets, DecodeError("JSONDecodeError"), <<>>, <<>>)
        ELSE Returned(Self, buckets,
                      [kind |-> "str", text |-> json_dumps(policy_json.v, JsonIndent, FALSE, 0)],
                      <<>>, <<>>)

\* cloudspark S3Connection.policy_decode: the outcome, the exception and the text returned
policy_decode(policy_encoded) ==
    LET raw == b64decode(policy_encoded, 1, 0, 0, 0, <<>>)
        policy_decoded == [i \in DOMAIN raw.bytes |-> Chr(raw.bytes[i])]
        policy_json == json_loads(policy_decoded)
    IN  IF ~raw.ok THEN Raised(Self, buckets, DecodeError("binascii.Error"), <<>>, <<>>)
        ELSE IF \E i \in DOMAIN raw.bytes : raw.bytes[i] >= 128
        THEN Raised(Self, buckets, DecodeError("UnicodeDecodeError"), <<>>, <<>>)
        ELSE IF ~policy_json.ok
        THEN Raised(Self, buckets, DecodeError("JSONDecodeError"), <<>>, <<>>)
        ELSE Returned(Self, buckets,
                      [kind |-> "str", text |-> json_dumps(policy_json.v, JsonIndent, FALSE, 0)],
                      <<>>, <<>>)

\* a call of policy_decode; document is the document the caller encoded, NoHandle when
\* the input encodes none
CallPolicyDecode(policy_encoded, document) ==
    /\ variant = "cloudspark"
    /\ Observe("policy_decode", [policy_encoded |-> policy_encoded, document |-> document],
               policy_decode(policy_encoded))

----------------------------------------------------------------------------
(* Inputs of policy_decode *)

Atoms == {JInt(1), JInt(20), JStr(<<"a", " ", "b">>), JNull}

DocKeys == {<<"a">>, <<"b">>, <<"c">>}

\* the largest number of members of a dict or list of a document
MaxMembers == 2

\* the dicts of up to MaxMembers members with distinct keys, in every order
DictsOf(values) ==
    { JDict(m) : m \in { q \in UNION { [1..n -> DocKeys \X values] : n \in 0..MaxMembers } :
                           \A i, j \in DOMAIN q : i /= j => q[i][1] /= q[j][1] } }

ListsOf(values) == { JList(m) : m \in UNION { [1..n -> values] : n \in 0..MaxMembers } }

Containers == DictsOf(Atoms) \cup ListsOf(Atoms)

\* the documents: the atoms, the containers of atoms, and a container inside a container
Documents ==
    Atoms \cup Containers
    \cup { JDict(<< <<k, c>> >>) : k \in {<<"a">>}, c \in Containers }
    \cup { JList(<<c>>) : c \in Containers }

\* base64 of the JSON text of a document, in the compact or in the default layout
EncodePolicy(doc, compact) == b64encode(Encode(json_dumps(doc, 0, compact, 0)), 1)

DropLast(text) == SubSeq(text, 1, Len(text) - 1)

\* malformed inputs: base64 text that lost its last character, base64 of a JSON text that
\* lost its closing bracket, base64 of a byte that is no UTF-8, and the empty string
MalformedPolicies ==
    { DropLast(EncodePolicy(c, TRUE)) : c \in Containers }
    \cup { b64encode(Encode(DropLast(json_dumps(c, 0, TRUE, 0))), 1) : c \in Containers }
    \cup { b64encode(<<255>>, 1), <<>> }

DecodeInputs ==
    { [policy_encoded |-> EncodePolicy(d, compact), document |-> d] :
        d \in Documents, compact \in BOOLEAN }
    \cup { [policy_encoded |-> m, document |-> NoHandle] : m \in MalformedPolicies }

\* the document of the specification's test, {"a":1}
SpecDocument == JDict(<< <<<<"a">>, JInt(1)>> >>)

----------------------------------------------------------------------------
(* The facade and its callers *)

\* the instances of the class in one process
Instances == {1, 2}

\* the class attributes as the class statement leaves them
ClassAttributes == [session |-> NoHandle, s3_instance |-> NoHandle, bucket_name |-> None]

\* an instance after __init__: the identity and region it keeps, the attributes assigned on
\* it since (has) and their values; and what was called on it: session_connect(),
\* connect(), the last name given to connect(), the outcome of its last get_instance() and
\* the instances that were connected then, the outcome of its last upload_object()
NewInstance(v, region) ==
    [identity |-> IF v = "cloudspark"
                  THEN [access_key |-> "ASIA", secret_access_key |-> "temp-secret",
                        session_token |-> "temp-token"]
                  ELSE [access_key |-> "AKIA", secret_access_key |-> "long-secret",
                        session_token |-> None],
     region_name |-> region, has |-> {}, session |-> NoHandle, s3_instance |-> NoHandle,
     bucket_name |-> None, sessionCalled |-> FALSE, connectCalled |-> FALSE, named |-> None,
     got |-> "none", gotAfter |-> {}, sent |-> "none"]

\* the threads that share the instance
Threads == {1, 2}

\* a thread that has not called anything: where it stands in the method it runs (pc), the
\* calls it makes (op) and its bucket_name argument (name), what session_connect and
\* connect returned to it (sret, ret),
\* which of _session and __s3_instance it found to be None (sawNone), the Bucket of the
\* request it sent (sent), and the order of its bucket_name assignment and of its request
\* among the bucket_name assignments of all threads (wroteAt, sentAfter)
IdleThread ==
    [pc |-> "idle", op |-> "none", name |-> None, sret |-> NoHandle, ret |-> NoHandle,
     sawNone |-> {},
     sent |-> None, outcome |-> "running", wroteAt |-> 0, sentAfter |-> 0]

\* an instance about to be constructed: the class attributes are all None
Init ==
    /\ variant \in Variants
    /\ phase = "new"
    /\ identity = NoIdentity
    /\ region_name = None
    /\ session = NoHandle
    /\ s3_instance = NoHandle
    /\ bucket_name = None
    /\ buckets \in {{}, {"b2"}}
    /\ sessionsBuilt = 0
    /\ clientsBuilt = 0
    /\ connectCalled = FALSE
    /\ connectRets = {}
    /\ sessionRets = {}
    /\ createdOk = {}
    /\ threads = [t \in Threads |-> IdleThread]
    /\ objects = NoObjects
    /\ klass = ClassAttributes
    /\ instances = [i \in Instances |-> NewInstance(variant, "us-east-1")]
    /\ last = [op |-> "none", arg |-> None, outcome |-> "returned", exc |-> NoExc,
               ret |-> NoHandle, calls |-> <<>>, logs |-> <<>>,
               pre |-> [session |-> NoHandle, s3_instance |-> NoHandle, bucket_name |-> None,
                        connectCalled |-> FALSE, createdOk |-> {}, buckets |-> {}]]

Construct ==
    \/ \E kp \in KeyPairs, region \in Regions, d \in Durations :
         \E resp \in StsResponses(kp) : S3Connection_init(kp, region, d, resp)
    \/ \E kp \in KeyPairs, region \in Regions : App_S3Connection_init(kp, region)

Connection ==
    \/ CallSessionConnect
    \/ \E name \in BucketArgs : CallConnect(name)
    \/ \E name \in BucketArgs : CallS3Connect(name)
    \/ get_instance
    \/ get_s3_instance
    \/ \E name \in BucketNames :
         \E headResp \in HeadResponses(buckets, name), createResp \in CreateResponses :
           CallCreateS3Bucket(name, headResp, createResp)
    \/ \E kp \in KeyPairs, d \in Durations :
         \E resp \in StsResponses(kp) : CallGetStsToken(kp, d, resp)
    \/ \E input \in {[policy_encoded |-> EncodePolicy(SpecDocument, TRUE),
                       document |-> SpecDocument],
                      [policy_encoded |-> DropLast(EncodePolicy(SpecDocument, TRUE)),
                       document |-> NoHandle]} :
         CallPolicyDecode(input.policy_encoded, input.document)

BucketMethods ==
    \/ \E rules \in {None, "rules"}, resp \in OpResponses : set_bucket_cors(rules, resp)
    \/ \E resp \in OpResponses : get_bucket_cors(resp)
    \/ \E resp \in OpResponses : delete_bucket_cors(resp)
    \/ \E policy \in {None, "dict", "policy-string"}, resp \in OpResponses :
         set_bucket_policy(policy, resp)
    \/ \E resp \in OpResponses : delete_bucket_policy(resp)
    \/ \E resp \in OpResponses : get_bucket_policy(resp)
    \/ \E block \in BOOLEAN, resp \in OpResponses : public_access(block, resp)
    \/ \E block \in BOOLEAN, resp \in OpResponses : s3_public_access(block, resp)
    \/ \E user \in UserNames, resp \in OpResponses : list_user_policies(user, resp)
    \/ \E user \in UserNames, resp \in OpResponses : app_list_user_policies(user, resp)

ObjectMethods ==
    \/ \E k \in Keys, resp \in OpResponses : upload_object(k, resp)
    \/ \E k \in Keys, resp \in OpResponses : get_object(k, resp)
    \/ \E k \in Keys, resp \in OpResponses : head_object(k, resp)
    \/ \E k \in Keys, resp \in OpResponses : delete_object(k, resp)
    \/ \E oo \in BOOLEAN, ok \in BOOLEAN, page \in ListPages, resp \in OpResponses :
         get_objects(oo, ok, page, resp)
    \/ \E oo \in BOOLEAN, ok \in BOOLEAN, page \in ListPages, resp \in OpResponses :
         get_s3_bucket_objects(oo, ok, page, resp)

PresignMethods ==
    \/ \E o \in ObjectNames, params \in {NoHandle, SpecParams}, e \in Expirations,
          resp \in OpResponses :
         presigned_create_url(o, params, NoHandle, NoHandle, e, resp)
    \/ \E o \in ObjectNames, e \in Expirations, resp \in OpResponses :
         presigned_delete_url(o, e, resp)
    \/ \E o \in ObjectNames, e \in Expirations, resp \in OpResponses :
         presigned_get_url(o, e, resp)

Next == Construct \/ Connection \/ BucketMethods \/ ObjectMethods \/ PresignMethods

Spec == Init /\ [][Next]_vars

\* policy_decode on every input; the call changes nothing but what the caller sees, so a
\* behaviour that repeats it on the same instance adds no case
NextDecode ==
    \/ Construct
    \/ /\ last.op /= "policy_decode"
       /\ \E input \in DecodeInputs : CallPolicyDecode(input.policy_encoded, input.document)

SpecDecode == Init /\ [][NextDecode]_vars

\* presigned_create_url on every combination of params, fields and conditions, once
\* between two other calls
NextPresign ==
    \/ Construct
    \/ \E name \in BucketArgs : CallConnect(name)
    \/ /\ last.op /= "presigned_create_url"
       /\ \E o \in ObjectNames, params \in ParamDicts, fields \in FieldDicts,
             conditions \in ConditionLists, e \in Expirations, resp \in OpResponses :
            presigned_create_url(o, params, fields, conditions, e, resp)

SpecPresign == Init /\ [][NextPresign]_vars

----------------------------------------------------------------------------
(* Several threads on one instance: the methods have no lock, so a thread may be
   suspended between any two reads or writes of the instance *)

\* BuildSession that looks at _session once more before it assigns
BuildSessionIfNone(self) ==
    IF self.session = NoHandle
    THEN [self EXCEPT !.session = NewSession(self), !.sessionsBuilt = @ + 1]
    ELSE self

\* self._session = boto3.Session(...)
BuildSession(self) ==
    [self EXCEPT !.session = NewSession(self), !.sessionsBuilt = @ + 1]

\* self.__s3_instance = self._session.client('s3', ...)
BuildClient(self, signature_version) ==
    [self EXCEPT !.s3_instance = NewClient(self, signature_version), !.clientsBuilt = @ + 1]

\* UploadBucket that takes the name the calling thread gave to connect
UploadBucketOfCaller(self, thr) == thr.name

\* Bucket=self._bucket_name of the put_object request
UploadBucket(self, thr) == self.bucket_name

\* the bucket_name assignments made so far
Writes == Cardinality({u \in Threads : threads[u].wroteAt > 0})

Move(t, thr) ==
    /\ phase = "ready"
    /\ threads' = [threads EXCEPT ![t] = thr]
    /\ UNCHANGED <<objects, klass, instances, variant, phase, identity, region_name, buckets,
                   connectCalled,
                   connectRets, sessionRets, createdOk, last>>

Reads == UNCHANGED <<session, s3_instance, bucket_name, sessionsBuilt, clientsBuilt>>

\* a thread makes its calls: session_connect(); connect(name); session_connect() and then
\* connect(name); connect(name) and then upload_object()
Start(t, op, name) ==
    /\ threads[t].pc = "idle"
    /\ Move(t, [threads[t] EXCEPT !.op = op, !.name = name,
                                  !.pc = IF op \in {"session_connect", "session_connect_connect"}
                                        THEN "s1" ELSE "c1"])
    /\ Reads

\* connect: if not self._session:
CheckSession(t) ==
    /\ threads[t].pc = "c1"
    /\ Move(t, [threads[t] EXCEPT !.pc = IF ~TruthyHandle(session) THEN "s1" ELSE "c2"])
    /\ Reads

\* session_connect: if self._session is None:
CheckSessionNone(t) ==
    /\ threads[t].pc = "s1"
    /\ Move(t, IF session = NoHandle
               THEN [threads[t] EXCEPT !.pc = "s2", !.sawNone = @ \cup {"session"}]
               ELSE [threads[t] EXCEPT !.pc = "s3"])
    /\ Reads

\* session_connect: self._session = boto3.Session(...)
StoreSession(t) ==
    /\ threads[t].pc = "s2"
    /\ Move(t, [threads[t] EXCEPT !.pc = "s3"])
    /\ Install(BuildSession(Self))

\* session_connect: return self._session
ReturnSession(t) ==
    /\ threads[t].pc = "s3"
    /\ Move(t, IF threads[t].op = "session_connect"
               THEN [threads[t] EXCEPT !.pc = "done", !.sret = session, !.outcome = "returned"]
               ELSE IF threads[t].op = "session_connect_connect" /\ threads[t].sret = NoHandle
               THEN [threads[t] EXCEPT !.pc = "c1", !.sret = session]
               ELSE [threads[t] EXCEPT !.pc = "c2"])
    /\ Reads

\* connect: if self.__s3_instance is None:
CheckClientNone(t) ==
    /\ threads[t].pc = "c2"
    /\ Move(t, IF s3_instance = NoHandle
               THEN [threads[t] EXCEPT !.pc = "c3", !.sawNone = @ \cup {"client"}]
               ELSE [threads[t] EXCEPT !.pc = "c4"])
    /\ Reads

\* connect: self.__s3_instance = self._session.client('s3', ...)
StoreClient(t) ==
    /\ threads[t].pc = "c3"
    /\ Move(t, [threads[t] EXCEPT !.pc = "c4"])
    /\ Install(BuildClient(Self, IF variant = "cloudspark" THEN "s3v4" ELSE "default"))

\* connect: if bucket_name: self._bucket_name = bucket_name
StoreBucket(t) ==
    /\ threads[t].pc = "c4"
    /\ Move(t, [threads[t] EXCEPT !.pc = "c5",
                                  !.wroteAt = IF Truthy(threads[t].name) THEN Writes + 1 ELSE 0])
    /\ Install(RememberBucket(Self, threads[t].name))

\* connect: return self.__s3_instance
ReturnClient(t) ==
    /\ threads[t].pc = "c5"
    /\ Move(t, IF threads[t].op \in {"connect", "session_connect_connect"}
               THEN [threads[t] EXCEPT !.pc = "done", !.ret = s3_instance,
                                       !.outcome = "returned"]
               ELSE [threads[t] EXCEPT !.pc = "u1", !.ret = s3_instance])
    /\ Reads

\* upload_object: assert self.__s3_instance and self._bucket_name
AssertConnected(t) ==
    /\ threads[t].pc = "u1"
    /\ Move(t, IF Connected(Self)
               THEN [threads[t] EXCEPT !.pc = "u2"]
               ELSE [threads[t] EXCEPT !.pc = "done", !.outcome = "raised"])
    /\ Reads

\* upload_object: self.__s3_instance.put_object(Bucket=self._bucket_name, ...)
SendUpload(t, resp) ==
    /\ threads[t].pc = "u2"
    /\ Move(t, [threads[t] EXCEPT !.pc = "done", !.sent = UploadBucket(Self, threads[t]),
                                  !.sentAfter = Writes,
                                  !.outcome = IF resp = "200" THEN "returned" ELSE "raised"])
    /\ Reads

\* an instance that has been constructed and on which nothing has been called yet
InitReady ==
    /\ variant \in Variants
    /\ phase = "ready"
    /\ identity = IF variant = "cloudspark"
                  THEN AWSConnection_init(IssuedCredentials.AccessKeyId,
                                          IssuedCredentials.SecretAccessKey,
                                          IssuedCredentials.SessionToken)
                  ELSE AWSConnection_init("AKIA", "long-secret", None)
    /\ region_name \in Regions
    /\ session = NoHandle
    /\ s3_instance = NoHandle
    /\ bucket_name = None
    /\ buckets = {}
    /\ sessionsBuilt = 0
    /\ clientsBuilt = 0
    /\ connectCalled = FALSE
    /\ connectRets = {}
    /\ sessionRets = {}
    /\ createdOk = {}
    /\ threads = [t \in Threads |-> IdleThread]
    /\ objects = NoObjects
    /\ klass = ClassAttributes
    /\ instances = [i \in Instances |-> NewInstance(variant, "us-east-1")]
    /\ last = [op |-> "none", arg |-> None, outcome |-> "returned", exc |-> NoExc,
               ret |-> NoHandle, calls |-> <<>>, logs |-> <<>>,
               pre |-> [session |-> NoHandle, s3_instance |-> NoHandle, bucket_name |-> None,
                        connectCalled |-> FALSE, createdOk |-> {}, buckets |-> {}]]

NextThreads ==
    \E t \in Threads :
       \/ \E op \in {"session_connect", "connect", "session_connect_connect", "connect_upload"},
             name \in {None} \cup BucketNames : Start(t, op, name)
       \/ CheckSession(t)
       \/ CheckSessionNone(t)
       \/ StoreSession(t)
       \/ ReturnSession(t)
       \/ CheckClientNone(t)
       \/ StoreClient(t)
       \/ StoreBucket(t)
       \/ ReturnClient(t)
       \/ AssertConnected(t)
       \/ \E resp \in OpResponses : SendUpload(t, resp)

SpecThreads == InitReady /\ [][NextThreads]_vars

----------------------------------------------------------------------------
(* Several instances of the class: _session, __s3_instance and _bucket_name are declared
   in the class body, so an instance on which none has been assigned reads the value of
   the class, and an assignment through self makes an attribute of that instance *)

\* self as a method of the instance reads it: its own attribute where it has one, the
\* attribute of the class where it has none
View(cls, inst) ==
    [identity |-> inst.identity, region_name |-> inst.region_name,
     session |-> IF "session" \in inst.has THEN inst.session ELSE cls.session,
     s3_instance |-> IF "s3_instance" \in inst.has THEN inst.s3_instance ELSE cls.s3_instance,
     bucket_name |-> IF "bucket_name" \in inst.has THEN inst.bucket_name ELSE cls.bucket_name,
     sessionsBuilt |-> sessionsBuilt, clientsBuilt |-> clientsBuilt]

\* SetAttributes that assigns on the class, as S3Connection._bucket_name = ... would
SetAttributesOfClass(cls, inst, assigned, self) ==
    [cls |-> [session |-> IF "session" \in assigned THEN self.session ELSE cls.session,
              s3_instance |-> IF "s3_instance" \in assigned THEN self.s3_instance
                              ELSE cls.s3_instance,
              bucket_name |-> IF "bucket_name" \in assigned THEN self.bucket_name
                              ELSE cls.bucket_name],
     inst |-> inst]

\* the assignments self.<attribute> = ... of a method: the class and the instance after them
SetAttributes(cls, inst, assigned, self) ==
    [cls |-> cls,
     inst |-> [inst EXCEPT
                 !.has = @ \cup assigned,
                 !.session = IF "session" \in assigned THEN self.session ELSE @,
                 !.s3_instance = IF "s3_instance" \in assigned THEN self.s3_instance ELSE @,
                 !.bucket_name = IF "bucket_name" \in assigned THEN self.bucket_name ELSE @]]

\* a method called on instance i that leaves the class and instance i as in after and
\* instance i with the history in called
OnInstance(i, after, self, called) ==
    /\ phase = "ready"
    /\ klass' = after.cls
    /\ instances' = [instances EXCEPT ![i] = called]
    /\ sessionsBuilt' = self.sessionsBuilt
    /\ clientsBuilt' = self.clientsBuilt
    /\ UNCHANGED <<threads, objects, variant, phase, identity, region_name, session,
                   s3_instance, bucket_name, buckets, connectCalled, connectRets,
                   sessionRets, createdOk, last>>

\* session_connect() on instance i
InstanceSessionConnect(i) ==
    LET before == View(klass, instances[i])
        self == session_connect(before)
        after == SetAttributes(klass, instances[i],
                               IF before.session = NoHandle THEN {"session"} ELSE {}, self)
    IN  OnInstance(i, after, self, [after.inst EXCEPT !.sessionCalled = TRUE])

\* connect(name) / s3_connect(name) on instance i; it assigns the attributes it finds to
\* be None, and the bucket name if it is given one
InstanceConnect(i, name) ==
    LET before == View(klass, instances[i])
        self == ConnectOf(variant, before, name)
        assigned == {a \in {"session", "s3_instance", "bucket_name"} :
                        \/ a = "session" /\ before.session = NoHandle
                        \/ a = "s3_instance" /\ before.s3_instance = NoHandle
                        \/ a = "bucket_name" /\ Truthy(name)}
        after == SetAttributes(klass, instances[i], assigned, self)
    IN  OnInstance(i, after, self,
                   [after.inst EXCEPT !.connectCalled = TRUE,
                                      !.named = IF Truthy(name) THEN name ELSE @])

\* get_instance() / get_s3_instance() on instance i
InstanceGetInstance(i) ==
    LET self == View(klass, instances[i])
    IN  OnInstance(i, [cls |-> klass, inst |-> instances[i]], self,
                   [instances[i] EXCEPT
                      !.got = IF TruthyHandle(self.s3_instance) THEN "returned"
                              ELSE "AssertionError",
                      !.gotAfter = {j \in Instances : instances[j].connectCalled}])

\* upload_object() on instance i: the Bucket of its request, if it makes one
InstanceUploadObject(i) ==
    LET self == View(klass, instances[i])
    IN  OnInstance(i, [cls |-> klass, inst |-> instances[i]], self,
                   [instances[i] EXCEPT
                      !.sent = IF Connected(self) THEN self.bucket_name
                               ELSE "AssertionError"])

NextInstances ==
    \E i \in Instances :
       \/ InstanceSessionConnect(i)
       \/ \E name \in BucketArgs : InstanceConnect(i, name)
       \/ InstanceGetInstance(i)
       \/ InstanceUploadObject(i)

SpecInstances == InitReady /\ [][NextInstances]_vars

----------------------------------------------------------------------------
(* Properties *)

ConnectOps == {"connect", "s3_connect"}

\* the methods that work on the remembered bucket
BucketScopedOps ==
    {"set_bucket_cors", "get_bucket_cors", "delete_bucket_cors", "set_bucket_policy",
     "delete_bucket_policy", "get_bucket_policy", "public_access", "s3_public_access",
     "presigned_create_url", "presigned_delete_url", "presigned_get_url", "upload_object",
     "get_object", "head_object", "delete_object", "get_objects", "get_s3_bucket_objects"}

\* the methods that talk to an upstream service through the session or the client
UpstreamOps == BucketScopedOps \cup {"get_instance", "get_s3_instance", "create_s3bucket",
                                     "list_user_policies"}

\* C1: however often connect() / s3_connect() and session_connect() are called on the
\* instance, at most one Client and one Session are ever constructed, every call of
\* connect returns the one Client the instance holds, and every call of session_connect
\* returns the one Session it holds.
C1_Singleton ==
    /\ clientsBuilt <= 1
    /\ sessionsBuilt <= 1
    /\ connectCalled => clientsBuilt = 1 /\ connectRets = {s3_instance}
    /\ sessionRets /= {} => sessionsBuilt = 1 /\ sessionRets = {session}
    /\ last.op \in ConnectOps => last.ret = s3_instance /\ last.ret /= NoHandle
    /\ last.op = "session_connect" => last.ret = session /\ last.ret /= NoHandle

\* a second or later connect that returned the client the first one built
C1_Witness ==
    /\ last.op \in ConnectOps
    /\ last.pre.connectCalled
    /\ last.pre.s3_instance /= NoHandle
    /\ last.ret = last.pre.s3_instance
    /\ sessionRets /= {}

\* C2, as claimed: on an instance on which connect was never called, every method that
\* reaches upstream fails its assertion and sends no request.
C2_Claim ==
    (last.op \in UpstreamOps /\ ~last.pre.connectCalled) =>
        /\ last.outcome = "raised"
        /\ last.exc = AssertionError
        /\ last.calls = <<>>

\* C3, as claimed: connect(bucket_name) leaves the remembered bucket equal to the name
\* supplied, the empty string included.
C3_Claim ==
    (last.op \in ConnectOps /\ last.arg /= None) => bucket_name = last.arg

\* C3, amended: connect(bucket_name) leaves the remembered bucket equal to bucket_name for
\* every non-empty name, whatever was remembered before; with the empty string, as with no
\* name, the remembered bucket stays what it was.
C3_Overwrite ==
    last.op \in ConnectOps =>
        IF last.arg \in BucketNames
        THEN bucket_name = last.arg
        ELSE bucket_name = last.pre.bucket_name

\* a connect with a name that replaced another remembered name
C3_Witness ==
    /\ last.op \in ConnectOps
    /\ last.arg = "b1"
    /\ last.pre.bucket_name = "b2"
    /\ bucket_name = "b1"

\* C4: with a non-empty params, presigned_create_url on a connected instance hands to
\* generate_presigned_post a Fields dict that binds x-amz-meta-<k> to params[k] and a
\* Conditions list that holds {x-amz-meta-<k>: params[k]} for every key k of params but
\* file_name, and nothing it adds to the caller's fields and conditions comes from file_name:
\* every other field and condition is one the caller passed.
C4_Metadata ==
    (/\ last.op = "presigned_create_url"
     /\ last.arg.params /= NoHandle
     /\ last.arg.params.items /= <<>>
     /\ last.pre.s3_instance /= NoHandle
     /\ Truthy(last.pre.bucket_name)) =>
        /\ Len(last.calls) = 1
        /\ last.calls[1].api = "generate_presigned_post"
        /\ last.calls[1].arg.Fields.kind = "dict"
        /\ last.calls[1].arg.Conditions.kind = "list"
        /\ LET P == last.arg.params.items
               F == last.calls[1].arg.Fields.items
               C == last.calls[1].arg.Conditions.items
               given == IF last.arg.fields.kind = "dict" THEN last.arg.fields.items ELSE <<>>
               givenC == IF last.arg.conditions.kind = "list"
                         THEN last.arg.conditions.items ELSE <<>>
               meta == { "x-amz-meta-" \o P[i][1] : i \in { j \in DOMAIN P : P[j][1] /= "file_name" } }
           IN  /\ \A i \in DOMAIN P :
                     P[i][1] /= "file_name" =>
                        /\ ("x-amz-meta-" \o P[i][1]) \in DOMAIN F
                        /\ F["x-amz-meta-" \o P[i][1]] = P[i][2]
                        /\ \E j \in DOMAIN C :
                              /\ DOMAIN C[j] = {"x-amz-meta-" \o P[i][1]}
                              /\ C[j]["x-amz-meta-" \o P[i][1]] = P[i][2]
               /\ DOMAIN F = DOMAIN given \cup meta
               /\ \A k \in DOMAIN F \ meta : F[k] = given[k]
               /\ "x-amz-meta-file_name" \notin DOMAIN F
               /\ "file_name" \notin DOMAIN F
               /\ Len(C) = Len(givenC) + Cardinality(meta)
               /\ \A j \in DOMAIN C :
                     IF j <= Len(givenC) THEN C[j] = givenC[j]
                     ELSE DOMAIN C[j] \subseteq meta

\* the call of the specification's example, owner and file_name, with fields of the caller
C4_Witness ==
    /\ last.op = "presigned_create_url"
    /\ last.arg.params = SpecParams
    /\ last.arg.fields = Dict(DictSet(EmptyItems, "acl", "private"))
    /\ last.outcome = "returned"
    /\ last.calls[1].arg.Fields.items["x-amz-meta-owner"] = "alice"

C6_Claim ==
    \A i \in DOMAIN last.calls :
       (last.calls[i].resp /= "200" /\ last.calls[i].api /= "get_session_token"
        /\ ~(last.calls[i].api = "head_bucket" /\ last.calls[i].resp = "404")) =>
          /\ last.outcome = "raised"
          /\ last.exc = ClientError(last.calls[i].api, last.calls[i].resp)
          /\ last.logs /= <<>>
          /\ last.logs[Len(last.logs)].color = "error"

\* C7: a get_sts_token that meets an upstream failure has sent one request, prints one
\* error line and raises the failure it met; and an instance whose constructor failed
\* that way holds no session and no client, none having been constructed.
C7_StsFailure ==
    /\ (last.op \in {"__init__", "get_sts_token"} /\ last.outcome = "raised") =>
          /\ Len(last.calls) = 1
          /\ last.calls[1].api = "get_session_token"
          /\ last.calls[1].resp /= "200"
          /\ Len(last.logs) = 1
          /\ last.logs[1].color = "error"
          /\ last.exc.api = "get_session_token"
          /\ \/ last.exc.type = "ClientError" /\ last.exc.code = last.calls[1].resp
             \/ last.exc.type = last.calls[1].resp
    /\ phase = "failed" =>
          /\ last.op = "__init__"
          /\ last.outcome = "raised"
          /\ session = NoHandle
          /\ s3_instance = NoHandle
          /\ sessionsBuilt = 0
          /\ clientsBuilt = 0
          /\ connectRets = {}
          /\ sessionRets = {}

\* a constructor that failed on an invalid key pair
C7_Witness ==
    /\ phase = "failed"
    /\ last.exc = ClientError("get_session_token", "InvalidClientTokenId")
    /\ ~ValidKeyPair(last.arg)

\* C8, as claimed: what a successful presigned_create_url returns contains the url, the
\* form fields and the expiration.
C8_Claim ==
    (last.op = "presigned_create_url" /\ last.outcome = "returned") =>
        {"url", "fields", "expiration"} \subseteq DOMAIN last.ret.json

\* C8, amended: a successful presigned_create_url returns the JSON text of the upstream
\* answer, which holds the url and the form fields and nothing else; the form fields
\* include every field handed upstream, the metadata fields among them; the expiration is
\* handed upstream as ExpiresIn and is no member of what is returned.
C8_Descriptor ==
    (last.op = "presigned_create_url" /\ last.outcome = "returned") =>
        /\ last.ret.kind = "str"
        /\ DOMAIN last.ret.json = {"url", "fields"}
        /\ last.calls[1].arg.ExpiresIn = last.arg.expiration
        /\ LET sent == PresignedPostArguments(last.arg.params, last.arg.fields,
                                              last.arg.conditions).Fields
               F == IF sent.kind = "dict" THEN sent.items ELSE <<>>
           IN  /\ last.calls[1].arg.Fields = sent
               /\ \A k \in DOMAIN F :
                     k \in DOMAIN last.ret.json.fields /\ last.ret.json.fields[k] = F[k]
        /\ (last.arg.params /= NoHandle /\ last.arg.params.items /= <<>>) =>
              \A i \in DOMAIN last.arg.params.items :
                 last.arg.params.items[i][1] /= "file_name" =>
                    /\ ("x-amz-meta-" \o last.arg.params.items[i][1])
                          \in DOMAIN last.ret.json.fields
                    /\ last.ret.json.fields["x-amz-meta-" \o last.arg.params.items[i][1]]
                          = last.arg.params.items[i][2]

\* a successful call with metadata, at an expiration other than the default
C8_Witness ==
    /\ last.op = "presigned_create_url"
    /\ last.outcome = "returned"
    /\ last.arg.params = SpecParams
    /\ last.arg.expiration = 60
    /\ last.ret.json.fields["x-amz-meta-owner"] = "alice"

\* a text without the whitespace that stands outside its strings
RECURSIVE RemoveFormattingWhitespace(_, _, _)
RemoveFormattingWhitespace(text, i, inString) ==
    IF i > Len(text) THEN <<>>
    ELSE IF text[i] = "\""
    THEN <<text[i]>> \o RemoveFormattingWhitespace(text, i + 1, ~inString)
    ELSE IF ~inString /\ IsWhitespace(text[i])
    THEN RemoveFormattingWhitespace(text, i + 1, inString)
    ELSE <<text[i]>> \o RemoveFormattingWhitespace(text, i + 1, inString)

\* the step of policy_decode an input fails at, "" if at none
FailingStep(policy_encoded) ==
    LET raw == b64decode(policy_encoded, 1, 0, 0, 0, <<>>)
    IN  IF ~raw.ok THEN "binascii.Error"
        ELSE IF \E i \in DOMAIN raw.bytes : raw.bytes[i] >= 128 THEN "UnicodeDecodeError"
        ELSE IF ~json_loads([i \in DOMAIN raw.bytes |-> Chr(raw.bytes[i])]).ok
        THEN "JSONDecodeError"
        ELSE ""

\* C9: for every document d, policy_decode of the base64 of a JSON text of d returns a text
\* that, its formatting whitespace removed, parses back to d; and for a malformed input the
\* error of the decoding or parsing step that fails is what policy_decode raises.
C9_RightInverse ==
    last.op = "policy_decode" =>
        /\ last.arg.document /= NoHandle =>
              /\ last.outcome = "returned"
              /\ LET stripped == RemoveFormattingWhitespace(last.ret.text, 1, FALSE)
                     back == json_loads(stripped)
                 IN  /\ back.ok
                     /\ back.v = last.arg.document
                     /\ \A i \in DOMAIN stripped : stripped[i] /= "\n"
        /\ last.arg.document = NoHandle =>
              /\ FailingStep(last.arg.policy_encoded) /= ""
              /\ last.outcome = "raised"
              /\ last.exc = DecodeError(FailingStep(last.arg.policy_encoded))

\* the example of the specification, {"a":1}, decoded into an indented text
C9_Witness ==
    /\ last.op = "policy_decode"
    /\ last.arg.document = SpecDocument
    /\ last.arg.policy_encoded = <<"e", "y", "J", "h", "I", "j", "o", "x", "f", "Q", "=", "=">>
    /\ last.outcome = "returned"
    /\ Len(last.ret.text) > Len(json_dumps(SpecDocument, 0, TRUE, 0))

\* C10: on an instance that holds a client and remembers no bucket, every method that
\* works on the remembered bucket fails its assertion and sends no request.
C10_NoBucket ==
    (/\ last.op \in BucketScopedOps
     /\ last.pre.s3_instance /= NoHandle
     /\ ~Truthy(last.pre.bucket_name)) =>
        /\ last.outcome = "raised"
        /\ last.exc = AssertionError
        /\ last.calls = <<>>
        /\ last.logs = <<>>

\* presigned_create_url after a connect() without a name
C10_Witness ==
    /\ last.op = "presigned_create_url"
    /\ last.pre.s3_instance /= NoHandle
    /\ last.pre.bucket_name = None
    /\ last.pre.connectCalled
    /\ last.exc = AssertionError

\* C11: once the instance holds a Session it holds that same Session after every later
\* step, and once it holds a Client it holds that same Client after every later step,
\* whatever the step calls and whether the call returns or raises.
C11_NeverReplaced ==
    [][/\ session /= NoHandle => session' = session
       /\ s3_instance /= NoHandle => s3_instance' = s3_instance]_vars

\* a create_s3bucket that raised on an instance that held both, and still holds them
C11_Witness ==
    /\ last.op = "create_s3bucket"
    /\ last.outcome = "raised"
    /\ last.pre.session /= NoHandle
    /\ last.pre.s3_instance /= NoHandle
    /\ session = last.pre.session
    /\ s3_instance = last.pre.s3_instance
    /\ sessionRets /= {}

\* the methods that pass one request on to S3 or IAM
PassthroughOps ==
    {"set_bucket_cors", "get_bucket_cors", "delete_bucket_cors", "set_bucket_policy",
     "delete_bucket_policy", "get_bucket_policy", "public_access", "s3_public_access",
     "upload_object", "get_object", "head_object", "delete_object", "get_objects",
     "get_s3_bucket_objects", "list_user_policies"}

\* the instance met the method's precondition when the call began
PreconditionMet ==
    IF last.op = "list_user_policies" THEN last.pre.session /= NoHandle
    ELSE IF last.op = "create_s3bucket" THEN last.pre.s3_instance /= NoHandle
    ELSE last.pre.s3_instance /= NoHandle /\ Truthy(last.pre.bucket_name)

\* C12, as claimed: create_s3bucket and every passthrough method, called on a connected
\* instance, sends exactly one upstream request.
C12_Claim ==
    (last.op \in PassthroughOps \cup {"create_s3bucket"} /\ PreconditionMet) =>
        Len(last.calls) = 1

\* C12, amended: every passthrough method called on a connected instance sends exactly one
\* upstream request, whether it is answered or refused; the listing sends one
\* list_objects_v2 request and returns what that first page holds, also when the page is
\* truncated; create_s3bucket sends the existence check and, when and only when that
\* answers 'not found', the create request as a second one.
C12_OneCall ==
    /\ (last.op \in PassthroughOps /\ PreconditionMet) =>
          /\ Len(last.calls) = 1
          /\ last.op \in {"get_objects", "get_s3_bucket_objects"} =>
                /\ last.calls[1].api = "list_objects_v2"
                /\ last.calls[1].Bucket = last.pre.bucket_name
                /\ last.outcome = "returned" =>
                      last.ret = Listing(last.arg.only_objects, last.arg.only_keys,
                                         last.arg.page)
    /\ (last.op = "create_s3bucket" /\ PreconditionMet) =>
          /\ last.calls[1].api = "head_bucket"
          /\ IF last.calls[1].resp = "404"
             THEN Len(last.calls) = 2 /\ last.calls[2].api = "create_bucket"
             ELSE Len(last.calls) = 1

\* a listing answered with a truncated first page
C12_Witness ==
    /\ last.op = "get_objects"
    /\ last.outcome = "returned"
    /\ last.arg.page.IsTruncated
    /\ last.arg.only_keys
    /\ Len(last.calls) = 1
    /\ last.ret.items = <<"k1">>

\* C13: in a create_s3bucket on an instance that holds a client, a create request is sent
\* if and only if the existence check answered 404; that request names the bucket and
\* carries no location constraint when the region of the instance is us-east-1 and the
\* region as location constraint otherwise; an existence check refused with any other
\* code sends no create request and its error reaches the caller.
C13_CreateIffNotFound ==
    (last.op = "create_s3bucket" /\ last.pre.s3_instance /= NoHandle) =>
        /\ last.calls[1] = Call("head_bucket", last.arg, None, last.calls[1].resp)
        /\ (\E i \in DOMAIN last.calls : last.calls[i].api = "create_bucket")
              <=> last.calls[1].resp = "404"
        /\ \A i \in DOMAIN last.calls :
              last.calls[i].api = "create_bucket" =>
                 /\ i = 2
                 /\ last.calls[i].Bucket = last.arg
                 /\ last.calls[i].arg =
                       (IF region_name = "us-east-1" THEN None ELSE region_name)
        /\ last.calls[1].resp \notin {"200", "404"} =>
              /\ Len(last.calls) = 1
              /\ last.outcome = "raised"
              /\ last.exc = ClientError("head_bucket", last.calls[1].resp)

\* a bucket created outside us-east-1, the region sent as location constraint
C13_Witness ==
    /\ last.op = "create_s3bucket"
    /\ last.outcome = "returned"
    /\ region_name = "eu-west-1"
    /\ Len(last.calls) = 2
    /\ last.calls[2].arg = "eu-west-1"
    /\ last.arg \in buckets \ last.pre.buckets

\* the long-lived pair and the temporary triple as identities
IsIssued(id) ==
    id = [access_key |-> IssuedCredentials.AccessKeyId,
          secret_access_key |-> IssuedCredentials.SecretAccessKey,
          session_token |-> IssuedCredentials.SessionToken]

Assigned(attribute, pc) ==
    {t \in Threads : attribute \in threads[t].sawNone /\ threads[t].pc /= pc}

\* C15: with two threads on one instance, every thread that found _session to be None
\* constructs a Session of its own and every thread that found __s3_instance to be None a
\* Client of its own, whatever another thread has assigned in between; so two are
\* constructed exactly when both threads made the check before either assigned, and two
\* callers hold different handles only when two were constructed.
C15_CheckThenSet ==
    /\ sessionsBuilt = Cardinality(Assigned("session", "s2"))
    /\ clientsBuilt = Cardinality(Assigned("client", "c3"))
    /\ \A t, u \in Threads :
          /\ (threads[t].sret /= NoHandle /\ threads[u].sret /= NoHandle
              /\ threads[t].sret /= threads[u].sret) => sessionsBuilt = 2
          /\ (threads[t].ret /= NoHandle /\ threads[u].ret /= NoHandle
              /\ threads[t].ret /= threads[u].ret) => clientsBuilt = 2

\* two threads whose first session_connect() and first connect() raced: two Sessions and two
\* Clients were constructed and the two callers hold different ones of each
C15_Witness ==
    /\ \A t \in Threads : threads[t].op = "session_connect_connect" /\ threads[t].pc = "done"
    /\ sessionsBuilt = 2
    /\ clientsBuilt = 2
    /\ threads[1].sret /= threads[2].sret
    /\ threads[1].ret /= threads[2].ret
    /\ threads[1].sret.kind = "Session" /\ threads[2].sret.kind = "Session"
    /\ threads[1].ret.kind = "Client" /\ threads[2].ret.kind = "Client"

\* C16: the remembered bucket is the name of the latest connect(name) assignment of any
\* thread, and an upload_object is sent to the bucket remembered when its request is made,
\* the name of the latest assignment before it, whichever thread made that assignment; a
\* thread that called connect with a name is never stopped by the assertion of its upload.
C16_LastWriteWins ==
    /\ Writes > 0 =>
          \E u \in Threads : threads[u].wroteAt = Writes /\ bucket_name = threads[u].name
    /\ \A t \in Threads :
          /\ threads[t].sent /= None =>
                \E u \in Threads : /\ threads[u].wroteAt > 0
                                   /\ threads[u].wroteAt = threads[t].sentAfter
                                   /\ threads[t].sent = threads[u].name
          /\ (threads[t].op = "connect_upload" /\ threads[t].pc = "done"
              /\ Truthy(threads[t].name)) => threads[t].sent /= None

\* the upload of the caller that connected to b1 went to b2, the bucket of the other
\* caller, and returned normally
C16_Witness ==
    /\ threads[1].op = "connect_upload" /\ threads[1].name = "b1"
    /\ threads[2].op = "connect_upload" /\ threads[2].name = "b2"
    /\ threads[1].pc = "done"
    /\ threads[1].outcome = "returned"
    /\ threads[1].sent = "b2"

\* the most recent call is a presigned_create_url that got as far as its upstream request
PresignSent == last.op = "presigned_create_url" /\ last.calls /= <<>>

\* the call was given a non-empty params
WithParams == last.arg.params /= NoHandle /\ last.arg.params.items /= <<>>

\* C17, as claimed: in every call, with or without params, a fields dict and a conditions
\* list the caller passed are the objects worked on and handed upstream, and where the
\* caller passed none a fresh one is made for the call.
C17_Claim ==
    PresignSent =>
        /\ IF last.arg.fields /= NoHandle
           THEN objects.Fields = "caller's" /\ objects.fields = last.calls[1].arg.Fields
           ELSE objects.Fields = "fresh" /\ last.calls[1].arg.Fields.kind = "dict"
        /\ IF last.arg.conditions /= NoHandle
           THEN objects.Conditions = "caller's"
                /\ objects.conditions = last.calls[1].arg.Conditions
           ELSE objects.Conditions = "fresh" /\ last.calls[1].arg.Conditions.kind = "list"

\* C17, amended: in a call with a non-empty params, a fields dict and a conditions list
\* the caller passed are changed in place, so that after the call the caller's own objects
\* hold the injected metadata entries and are the very objects handed upstream, and where
\* the caller passed none a fresh one is made for the call; in a call without params
\* nothing is changed or made: the arguments are handed upstream as they came, None as None.
C17_InPlace ==
    PresignSent =>
        /\ WithParams =>
              /\ IF last.arg.fields /= NoHandle
                 THEN /\ objects.Fields = "caller's"
                      /\ objects.fields = last.calls[1].arg.Fields
                 ELSE /\ objects.Fields = "fresh"
                      /\ objects.fields = NoHandle
                      /\ last.calls[1].arg.Fields.kind = "dict"
              /\ IF last.arg.conditions /= NoHandle
                 THEN /\ objects.Conditions = "caller's"
                      /\ objects.conditions = last.calls[1].arg.Conditions
                 ELSE /\ objects.Conditions = "fresh"
                      /\ objects.conditions = NoHandle
                      /\ last.calls[1].arg.Conditions.kind = "list"
              /\ \A i \in DOMAIN last.arg.params.items :
                    LET key == last.arg.params.items[i][1]
                        value == last.arg.params.items[i][2]
                    IN  key /= "file_name" =>
                          /\ MetaKey(key) \in DOMAIN last.calls[1].arg.Fields.items
                          /\ \E j \in DOMAIN last.calls[1].arg.Conditions.items :
                                last.calls[1].arg.Conditions.items[j]
                                   = DictSet(EmptyItems, MetaKey(key), value)
        /\ ~WithParams =>
              /\ objects.fields = last.arg.fields
              /\ objects.conditions = last.arg.conditions
              /\ last.calls[1].arg.Fields = last.arg.fields
              /\ last.calls[1].arg.Conditions = last.arg.conditions
              /\ objects.Fields = (IF last.arg.fields = NoHandle THEN "None" ELSE "caller's")
              /\ objects.Conditions
                    = (IF last.arg.conditions = NoHandle THEN "None" ELSE "caller's")

\* a call with params, a fields dict of the caller and no conditions: the caller's dict has
\* gained the metadata entry and the conditions list is a fresh one
C17_Witness ==
    /\ PresignSent
    /\ last.arg.params = SpecParams
    /\ last.arg.fields = Dict(DictSet(EmptyItems, "acl", "private"))
    /\ last.arg.conditions = NoHandle
    /\ objects.Fields = "caller's"
    /\ objects.fields /= last.arg.fields
    /\ objects.fields.items["x-amz-meta-owner"] = "alice"
    /\ objects.fields.items["acl"] = "private"
    /\ objects.Conditions = "fresh"

\* C18: an instance that holds a Client holds a Session, the Client is an S3 client made
\* by that Session, and the Session was constructed no later than the Client: there is
\* never a Client while no Session has been constructed.
C18_ClientOfSession ==
    /\ s3_instance /= NoHandle =>
          /\ session /= NoHandle
          /\ session.kind = "Session"
          /\ s3_instance.kind = "Client"
          /\ s3_instance.service = "s3"
          /\ s3_instance.session = session.id
    /\ clientsBuilt > 0 => sessionsBuilt > 0
    /\ clientsBuilt <= sessionsBuilt

\* a Client built by connect from the Session an earlier session_connect() had built
C18_Witness ==
    /\ last.op \in ConnectOps
    /\ last.pre.session /= NoHandle
    /\ last.pre.s3_instance = NoHandle
    /\ s3_instance /= NoHandle
    /\ s3_instance.session = last.pre.session.id
    /\ session = last.pre.session

\* C19: a create_s3bucket that raises, at its assertion, at an existence check refused
\* with a code other than 404 or at a refused create request, leaves the remembered bucket,
\* the Client and the Session as they were when it was called; the remembered bucket is
\* changed by a create_s3bucket only when it returns, and then to the name it was given.
C19_RaiseKeepsState ==
    last.op = "create_s3bucket" =>
        /\ last.outcome = "raised" =>
              /\ bucket_name = last.pre.bucket_name
              /\ s3_instance = last.pre.s3_instance
              /\ session = last.pre.session
              /\ \/ last.exc = AssertionError /\ last.pre.s3_instance = NoHandle
                 \/ /\ last.exc = ClientError("head_bucket", last.calls[1].resp)
                    /\ last.calls[1].resp /= "404"
                 \/ /\ Len(last.calls) = 2
                    /\ last.exc = ClientError("create_bucket", last.calls[2].resp)
        /\ last.outcome = "returned" => bucket_name = last.arg
        /\ bucket_name /= last.pre.bucket_name => last.outcome = "returned"

\* a create_s3bucket('b1') whose create request was refused, on an instance that
\* remembered b2 and still does
C19_Witness ==
    /\ last.op = "create_s3bucket"
    /\ last.arg = "b1"
    /\ last.outcome = "raised"
    /\ last.exc.api = "create_bucket"
    /\ last.pre.bucket_name = "b2"
    /\ bucket_name = "b2"

\* C20: what a method reads on an instance is what the calls on that very instance have
\* left: it holds a Session exactly when session_connect() or connect() was called on it,
\* a Client exactly when connect() was called on it, and remembers the last name given to
\* its own connect(); the attributes of the class stay None, no two instances hold the
\* same Session or Client, and an instance on which connect() was never called fails the
\* assertion of every method, whatever was called on another instance.
C20_NoSharing ==
    /\ klass = ClassAttributes
    /\ \A i \in Instances :
          LET self == View(klass, instances[i])
          IN  /\ self.session /= NoHandle
                    <=> (instances[i].sessionCalled \/ instances[i].connectCalled)
              /\ self.s3_instance /= NoHandle <=> instances[i].connectCalled
              /\ self.bucket_name = instances[i].named
              /\ ~instances[i].connectCalled =>
                    /\ instances[i].got \in {"none", "AssertionError"}
                    /\ instances[i].sent \in {"none", "AssertionError"}
              /\ \A j \in Instances \ {i} :
                    LET other == View(klass, instances[j])
                    IN  /\ self.session /= NoHandle => self.session /= other.session
                        /\ self.s3_instance /= NoHandle => self.s3_instance /= other.s3_instance

\* instance 2, never connected, failed the assertion of get_instance() and of
\* upload_object() after instance 1 had been connected to a bucket
C20_Witness ==
    /\ instances[1].connectCalled
    /\ View(klass, instances[1]).bucket_name = "b1"
    /\ ~instances[2].connectCalled
    /\ instances[2].got = "AssertionError"
    /\ 1 \in instances[2].gotAfter
    /\ instances[2].sent = "AssertionError"
    /\ View(klass, instances[2]).s3_instance = NoHandle

====
